---- MODULE Spec2Model ----
(***************************************************************************)
(* A model of the scanning and remote-access engine of smuggler: the       *)
(* remote reader (src/src/remote.rs), the batch planner                    *)
(* (src/src/proc_maps.rs), the pattern engine                              *)
(* (src/src/commands/pattern_scan.rs) and the scan handlers with the       *)
(* results they record in the Scanner (src/src/commands/*.rs,              *)
(* src/src/scanner.rs).                                                    *)
(*                                                                         *)
(* Sizes are scaled down: CHUNK_SIZE is 4 bytes instead of 1 GiB and       *)
(* IOV_MAX is 2 instead of 1024.  The scaling keeps the relation           *)
(* CHUNK_SIZE / value.bytes() > IOV_MAX of the real constants for the      *)
(* one-byte type.                                                          *)
(***************************************************************************)
EXTENDS Integers, Sequences, FiniteSets, TLC

\* ------------------------------------------------------------------------
\* Program constants (scaled)
\* ------------------------------------------------------------------------

\* scanner.rs: pub const CHUNK_SIZE (1 GiB in the source)
CHUNK_SIZE == 4

\* scanner.rs: IOV_MAX, sysconf(_SC_IOV_MAX) (1024 on Linux)
IOV_MAX == 2

\* ------------------------------------------------------------------------
\* Bounds of the model
\* ------------------------------------------------------------------------

\* Longest request list handed to read_vecs in the remote-reader model
MaxReqs == 3

\* Longest single request in the remote-reader model
MaxReqLen == 2

\* Addresses of the batch-planner model are 0..MaxAddr
MaxAddr == 6

\* Most regions in a catalog of the batch-planner model
MaxRegions == 3

\* Calls of the batch iterator after it reported exhaustion
MaxExhausted == 2

\* Most tokens in a pattern of the pattern-engine model
MaxPatLen == 4

\* Longest memory chunk searched in the pattern-engine model
MaxMemLen == 5

\* The target of the scanner model has the addresses 0..ScMaxAddr
ScMaxAddr == 2

\* Most constraints in one scan or rescan command of the scanner model
MaxConstraints == 2

\* Most entries of a history handed to diff
MaxHistory == 3

\* Most characters of a word handed to parse_value
MaxWordLen == 2

\* Most tokens in a pattern of the anchor-scoring model
MaxScoreLen == 6

\* Most vectored calls of remote_readv that are followed
MaxCalls == 6

VARIABLES
    rvRemote,   \* read_vecs: the `remote` request list
    rvPrefix,   \* target: readable bytes at the start of each request
    rv,         \* read_vecs: locals (current_idx, to_read, buffers, ...)
    ckMaps,     \* Maps::chunks: the catalog (self)
    ckRange,    \* Maps::chunks: the `range` argument
    ckRegions,  \* Maps::chunks: `regions`, the clipped ranges still to plan
    ckBatches,  \* batches the iterator has yielded so far
    ckNone,     \* number of times the iterator has returned None
    ptTokens,   \* pattern scan: the pattern tokens (args[3..])
    ptMem,      \* pattern scan: the chunk of memory searched
    ptPattern,  \* Pattern: result of parse_scored_anchors
    ptIter,     \* PatternIterator: memmem position, offsets yielded, status
    tgMaps,     \* target: its memory map (/proc/pid/maps)
    tgMem,      \* target: the byte at each address
    tgBad,      \* target: addresses whose read fails although mapped
    tgAlive,    \* target: still running (/proc/pid/maps can be read)
    results,    \* Scanner::results
    cmd,        \* the last command run: kind, outcome, matches, batches
    scTrace,    \* the last command run: its arguments and its I/O
    lk,         \* region lookup: the address and the two answers
    vl,         \* parse_value: the argument and the outcome
    prior,      \* the value each address held when s.results was last saved
    sb,         \* scan_batch: its arguments, its workers, the lock and the vectors
    ro,         \* the last listing command run: kind, arguments, outcome, output
    an,         \* Anchor::score inside sort_by_score: the anchors and the counting loop
    os,         \* process_vm_readv: the values it returned to this read_vecs
    rr,         \* read_remote::remote_readv: its locals and the build's overflow mode
    cl          \* Cli::main_loop: the line typed, its words and what the handler was given

rvVars == <<rvRemote, rvPrefix, rv>>
ckVars == <<ckMaps, ckRange, ckRegions, ckBatches, ckNone>>
ptVars == <<ptTokens, ptMem, ptPattern, ptIter>>
scVars == <<tgMaps, tgMem, tgBad, tgAlive, results, cmd, scTrace>>
fnVars == <<lk, vl>>
auxVars == <<prior, sb, ro, an, os, rr, cl>>
vars == <<rvRemote, rvPrefix, rv, ckMaps, ckRange, ckRegions, ckBatches,
          ckNone, ptTokens, ptMem, ptPattern, ptIter,
          tgMaps, tgMem, tgBad, tgAlive, results, cmd, scTrace, lk, vl, auxVars>>

\* ------------------------------------------------------------------------
\* Generic helpers
\* ------------------------------------------------------------------------

RECURSIVE SumLens(_, _)
\* Sum of the lengths of requests i..Len(remote) (1-based)
SumLens(remote, i) ==
    IF i > Len(remote) THEN 0 ELSE remote[i].len + SumLens(remote, i + 1)

\* Option<Vec<u8>>
None == [some |-> FALSE, buf |-> << >>]
Some(b) == [some |-> TRUE, buf |-> b]

\* ------------------------------------------------------------------------
\* Target memory as seen by the remote-reader model: the byte at address a
\* is a itself, so a buffer shows which addresses it was filled from.
\* ------------------------------------------------------------------------

AddrBytes(base, n) == [k \in 1..n |-> base + k - 1]

\* A byte of a local buffer the OS never wrote (Vec::with_capacity)
Uninit == 0 - 1

\* ------------------------------------------------------------------------
\* process_vm_readv (external: the OS).  prefix[i] is the number of bytes
\* of request i the target lets us read (len = readable in full).
\* Requests are copied in order until one is not readable in full; the
\* call returns the bytes copied, or -1 when nothing was copied (EFAULT)
\* or when more than IOV_MAX requests are passed (EINVAL).
\* ------------------------------------------------------------------------

RECURSIVE Copied(_, _, _)
Copied(remote, prefix, i) ==
    IF i > Len(remote) THEN 0
    ELSE IF prefix[i] = remote[i].len
         THEN remote[i].len + Copied(remote, prefix, i + 1)
         ELSE prefix[i]

process_vm_readv(remote, prefix, current_idx) ==
    LET total == Copied(remote, prefix, current_idx + 1) IN
    IF Len(remote) - current_idx > IOV_MAX THEN -1
    ELSE IF total = 0 THEN -1
    ELSE total

\* Bytes the call stored in the local buffer i (1-based), the call having
\* started at request `from` (1-based) and copied n bytes in all
Filled(remote, from, n, i) ==
    IF i < from THEN 0
    ELSE LET before == SumLens(SubSeq(remote, from, i - 1), 1)
             rest   == IF n > before THEN n - before ELSE 0
         IN IF rest < remote[i].len THEN rest ELSE remote[i].len

\* ------------------------------------------------------------------------
\* remote::read_vecs
\* ------------------------------------------------------------------------

\* remote.rs 95-114: the locals before the first call
ReadVecsInit(remote) ==
    [ pc          |-> "loop",
      current_idx |-> 0,
      to_read     |-> SumLens(remote, 1),
      data        |-> [i \in 1..Len(remote) |-> << >>],   \* bytes stored
      vlen        |-> [i \in 1..Len(remote) |-> 0],       \* Vec::len()
      calls       |-> 0,
      starts      |-> << >>,                               \* call suffixes
      out         |-> << >> ]

RECURSIVE ReadVecsWalk(_, _, _)
\* remote.rs 142-170: walk the buffers after a call that returned
\* just_read >= 0
ReadVecsWalk(remote, st, just_read) ==
    LET cap  == remote[st.current_idx + 1].len
        tr   == st.to_read - cap
        idx  == st.current_idx + 1
        set  == [st.vlen EXCEPT ![st.current_idx + 1] = cap]
    IN IF tr = 0
       THEN [st EXCEPT !.to_read = tr, !.current_idx = idx, !.pc = "collect",
                       !.vlen = IF just_read = cap THEN set ELSE st.vlen]
       ELSE IF just_read >= cap
       THEN ReadVecsWalk(remote,
                [st EXCEPT !.to_read = tr, !.current_idx = idx, !.vlen = set],
                just_read - cap)
       ELSE [st EXCEPT !.to_read = tr, !.current_idx = idx]

\* The call handed the whole lists, local[0..] and remote[0..]
CallStartWhole(current_idx) == 0

\* remote.rs 121-124: the call is handed local[current_idx..] and
\* remote[current_idx..]; the 0-based index of its first request
CallStart(current_idx) == current_idx

\* remote.rs 129-171: one iteration of the 'read loop once the call has
\* returned just_read
ReadVecsStep(remote, st, just_read) ==
    LET from      == CallStart(st.current_idx) + 1
        called    == [st EXCEPT !.calls = st.calls + 1,
                                !.starts = Append(st.starts,
                                              CallStart(st.current_idx))]
    IN IF just_read < 0
       THEN [called EXCEPT
                !.to_read = st.to_read - remote[st.current_idx + 1].len,
                !.current_idx = st.current_idx + 1,
                !.pc = IF st.current_idx + 1 = Len(remote)
                       THEN "collect" ELSE "loop"]
       ELSE ReadVecsWalk(remote,
                [called EXCEPT !.data = [i \in 1..Len(remote) |->
                    IF i < from THEN st.data[i]
                    ELSE AddrBytes(remote[i].base,
                                   Filled(remote, from, just_read, i))]],
                just_read)

\* remote.rs 116-171: one iteration of the 'read loop (one vectored call)
ReadVecsIter(remote, prefix, st) ==
    ReadVecsStep(remote, st,
        process_vm_readv(remote, prefix, CallStart(st.current_idx)))

\* remote.rs 173-176: drop the vectors whose length was never set
ReadVecsCollect(remote, st) ==
    [st EXCEPT !.pc = "returned",
               !.out = [i \in 1..Len(remote) |->
                          IF st.vlen[i] = 0 THEN None
                          ELSE Some([k \in 1..st.vlen[i] |->
                                     IF k <= Len(st.data[i])
                                     THEN st.data[i][k]
                                     ELSE Uninit])]]

RECURSIVE ReadVecsRun(_, _, _)
ReadVecsRun(remote, prefix, st) ==
    IF st.pc = "loop"
    THEN ReadVecsRun(remote, prefix, ReadVecsIter(remote, prefix, st))
    ELSE ReadVecsCollect(remote, st)

\* remote.rs 92-177: the whole function
read_vecs(remote, prefix) ==
    ReadVecsRun(remote, prefix, ReadVecsInit(remote)).out

\* ------------------------------------------------------------------------
\* Specification of the remote reader called on any request list
\* ------------------------------------------------------------------------

ReqBases == {0, 4}

Requests == [base : ReqBases, len : 1..MaxReqLen]

RvCall ==
    /\ rv.pc = "loop"
    /\ rv' = ReadVecsIter(rvRemote, rvPrefix, rv)
    /\ UNCHANGED <<rvRemote, rvPrefix>>
    /\ UNCHANGED <<ckVars, ptVars, scVars, fnVars, auxVars>>

RvCollect ==
    /\ rv.pc = "collect"
    /\ rv' = ReadVecsCollect(rvRemote, rv)
    /\ UNCHANGED <<rvRemote, rvPrefix>>
    /\ UNCHANGED <<ckVars, ptVars, scVars, fnVars, auxVars>>

RvNext == RvCall \/ RvCollect

\* ------------------------------------------------------------------------
\* proc_maps::Maps::chunks
\* ------------------------------------------------------------------------

Min(a, b) == IF a < b THEN a ELSE b
Max(a, b) == IF a > b THEN a ELSE b

\* remote.rs 11-24: IoVec
IoVec(base, len) == [base |-> base, len |-> len]

RECURSIVE ChunksClipNoEnd(_, _)
\* ChunksClip with the upper bound of the range forgotten
ChunksClipNoEnd(maps, range) ==
    IF maps = << >> THEN << >>
    ELSE LET r     == Head(maps)
             start == IF r.start > range.start THEN r.start ELSE range.start
             rest  == ChunksClipNoEnd(Tail(maps), range)
         IN IF start < r.end /\ r.start < range.end
            THEN << [start |-> start, end |-> r.end] >> \o rest
            ELSE rest

RECURSIVE ChunksClipNoStart(_, _)
\* ChunksClip with the lower bound of the range forgotten
ChunksClipNoStart(maps, range) ==
    IF maps = << >> THEN << >>
    ELSE LET r    == Head(maps)
             end  == Min(r.end, range.end)
             rest == ChunksClipNoStart(Tail(maps), range)
         IN IF r.start < end
            THEN << [start |-> r.start, end |-> end] >> \o rest
            ELSE rest

RECURSIVE ChunksClip(_, _)
\* proc_maps.rs 244-251: clip every region to the range, drop the empty ones
ChunksClip(maps, range) ==
    IF maps = << >> THEN << >>
    ELSE LET r     == Head(maps)
             start == Max(r.start, range.start)
             end   == Min(r.end, range.end)
             rest  == ChunksClip(Tail(maps), range)
         IN IF start < end
            THEN << [start |-> start, end |-> end] >> \o rest
            ELSE rest

RECURSIVE ChunksFillWholeRegion(_, _, _)
\* ChunksFill pushing a region that does not fit in one piece
ChunksFillWholeRegion(regions, batch, remaining) ==
    IF regions = << >> THEN [batch |-> batch, regions |-> regions]
    ELSE LET region     == Head(regions)
             region_len == region.end - region.start
             b2 == Append(batch, IoVec(region.start, region_len))
         IN IF region_len = 0
            THEN ChunksFillWholeRegion(Tail(regions), batch, remaining)
            ELSE IF region_len < remaining
            THEN ChunksFillWholeRegion(Tail(regions), b2,
                                       remaining - region_len)
            ELSE [batch |-> b2, regions |-> Tail(regions)]

RECURSIVE ChunksFillOneRegion(_, _, _)
\* ChunksFill closing the batch after every region it pushes
ChunksFillOneRegion(regions, batch, remaining) ==
    IF regions = << >> THEN [batch |-> batch, regions |-> regions]
    ELSE LET region     == Head(regions)
             region_len == region.end - region.start
         IN IF region_len = 0
            THEN ChunksFillOneRegion(Tail(regions), batch, remaining)
            ELSE IF region_len <= remaining
            THEN [batch   |-> Append(batch, IoVec(region.start, region_len)),
                  regions |-> Tail(regions)]
            ELSE LET take_len == Min(remaining, region_len)
                 IN [batch   |-> Append(batch, IoVec(region.start, take_len)),
                     regions |-> << [region EXCEPT
                                       !.start = region.start + take_len] >>
                                 \o Tail(regions)]

RECURSIVE ChunksFill(_, _, _)
\* proc_maps.rs 258-285: the while loop that fills one batch
ChunksFill(regions, batch, remaining) ==
    IF regions = << >> THEN [batch |-> batch, regions |-> regions]
    ELSE LET region     == Head(regions)
             region_len == region.end - region.start
         IN IF region_len = 0
            THEN ChunksFill(Tail(regions), batch, remaining)
            ELSE IF region_len <= remaining
            THEN LET b2 == Append(batch, IoVec(region.start, region_len))
                     r2 == remaining - region_len
                 IN IF r2 = 0
                    THEN [batch |-> b2, regions |-> Tail(regions)]
                    ELSE ChunksFill(Tail(regions), b2, r2)
            ELSE LET take_len == Min(remaining, region_len)
                 IN [batch   |-> Append(batch, IoVec(region.start, take_len)),
                     regions |-> << [region EXCEPT
                                       !.start = region.start + take_len] >>
                                 \o Tail(regions)]

\* proc_maps.rs 254-292: one call of the iterator (the from_fn closure);
\* an empty batch is reported as None
ChunksNext(regions) == ChunksFill(regions, << >>, CHUNK_SIZE)

RECURSIVE ChunksAll(_)
\* proc_maps.rs 286-290: the batches a `for batch in iovecs` loop
\* receives; the iterator ends (None) at the first empty batch
ChunksAll(regions) ==
    LET nx == ChunksNext(regions)
    IN IF nx.batch = << >> THEN << >>
       ELSE << nx.batch >> \o ChunksAll(nx.regions)

\* ------------------------------------------------------------------------
\* Specification of the batch planner on any catalog and range
\* ------------------------------------------------------------------------

\* proc_maps.rs 49-59: Region (permissions and path as the scan commands
\* classify them)
Region(start, end, read, write, path) ==
    [start |-> start, end |-> end, read |-> read, write |-> write,
     path |-> path]

Intervals == {iv \in (0..MaxAddr) \X (0..MaxAddr) : iv[1] < iv[2]}

\* Catalogs as /proc/pid/maps lists them: ascending, non-overlapping,
\* no empty region (proc_maps.rs 75)
Catalogs(n) ==
    {m \in [1..n -> Intervals] :
        \A i \in 1..(n - 1) : m[i][2] <= m[i + 1][1]}

\* One call of next() on the iterator
CkNextBatch ==
    /\ ckNone < MaxExhausted
    /\ LET nx == ChunksNext(ckRegions)
       IN /\ ckRegions' = nx.regions
          /\ IF nx.batch = << >>
             THEN ckNone' = ckNone + 1 /\ UNCHANGED ckBatches
             ELSE ckBatches' = Append(ckBatches, nx.batch)
                  /\ UNCHANGED ckNone
    /\ UNCHANGED <<ckMaps, ckRange>>
    /\ UNCHANGED <<rvVars, ptVars, scVars, fnVars, auxVars>>

CkNext == CkNextBatch

\* ------------------------------------------------------------------------
\* commands::pattern_scan: Anchor, Pattern, PatternIterator
\* ------------------------------------------------------------------------

\* The tokens of the model and what u8::from_str_radix(part, 16) makes of
\* them (pattern_scan.rs 181); "zz" is not a hexadecimal byte
HexTokens == {"00", "01"}
PatTokens == HexTokens \cup {"??", "zz"}
HexByte(part) == IF part = "00" THEN 0 ELSE 1

\* 1000 * log2(n), rounded
Log2Milli(n) ==
    CASE n = 1 -> 0    [] n = 2 -> 1000 [] n = 3 -> 1585
      [] n = 4 -> 2000 [] n = 5 -> 2322 [] n = 6 -> 2585

\* pattern_scan.rs 100: the largest value of a u16 counter of
\* Anchor::score, scaled (65535 in the source)
CounterMax == 3

\* Scores are kept as integers: 60000 times the f64 score of the source
\* (60 is divisible by every anchor length of the model)
ScoreScale == 60000

\* pattern_scan.rs 100-107: counts[b]
ByteCount(bytes, b) == Cardinality({k \in 1..Len(bytes) : bytes[k] = b})

RECURSIVE SumOver(_, _)
SumOver(f, S) ==
    IF S = {} THEN 0
    ELSE LET x == CHOOSE y \in S : TRUE IN f[x] + SumOver(f, S \ {x})

\* pattern_scan.rs 96-140: Anchor::score
Score(anchor) ==
    LET bytes  == anchor.bytes
        len    == Len(bytes)
        vals   == {bytes[k] : k \in 1..len}
        unique == Cardinality(vals)
        per    == 60 \div len
        \* diversity * 3.0
        diversity3 == 3 * 1000 * per * unique
        \* entropy * 2.0 ; -p*log2(p) summed = log2(len) - sum(c*log2(c))/len
        entropy2 == 2 * (60 * Log2Milli(len)
                         - per * SumOver([b \in vals |->
                               ByteCount(bytes, b)
                                 * Log2Milli(ByteCount(bytes, b))], vals))
        all_same_penalty == IF unique = 1 THEN 5 * ScoreScale ELSE 0
        max_count == CHOOSE c \in {ByteCount(bytes, b) : b \in vals} :
                        \A b \in vals : ByteCount(bytes, b) <= c
        repetition_penalty ==
            IF 10 * max_count > 9 * len THEN 3 * ScoreScale ELSE 0
        base_score == len * 90000 + entropy2 + diversity3
    IN base_score - all_same_penalty - repetition_penalty

RECURSIVE ParseAnchors(_, _, _, _, _)
\* pattern_scan.rs 167-197: the loop over the tokens; i is the 0-based
\* index of the next token.  Returns the anchors in pattern order, or
\* "Invalid byte"
ParseAnchors(parts, i, anchors, current_bytes, anchor_start) ==
    LET close == IF current_bytes = << >> THEN anchors
                 ELSE Append(anchors, [offset |-> anchor_start,
                                       bytes  |-> current_bytes])
    IN IF i = Len(parts) THEN [ok |-> TRUE, anchors |-> close]
       ELSE IF parts[i + 1] = "??"
       THEN ParseAnchors(parts, i + 1, close, << >>, anchor_start)
       ELSE IF parts[i + 1] \in HexTokens
       THEN ParseAnchors(parts, i + 1, anchors,
                Append(current_bytes, HexByte(parts[i + 1])),
                IF current_bytes = << >> THEN i ELSE anchor_start)
       ELSE [ok |-> FALSE, anchors |-> << >>]

\* Permutations of 1..n
Perms(n) == {f \in [1..n -> 1..n] : \A a, b \in 1..n : f[a] = f[b] => a = b}

\* pattern_scan.rs 227-230: sort_by_score.  sort_unstable_by with
\* a.score().partial_cmp(&b.score()): any arrangement in which the scores
\* never decrease from one anchor to the next
SortByScore(anchors) ==
    { [k \in 1..Len(anchors) |-> anchors[f[k]]] : f \in
        { g \in Perms(Len(anchors)) :
            \A k \in 1..(Len(anchors) - 1) :
                Score(anchors[g[k]]) <= Score(anchors[g[k + 1]]) } }

\* pattern_scan.rs 153-211: parse_scored_anchors; the set of its possible
\* results (Err, or Ok with the anchors sorted)
ParseScoredAnchors(parts) ==
    LET parsed == ParseAnchors(parts, 0, << >>, << >>, 0)
    IN IF ~parsed.ok THEN {[ok |-> FALSE, anchors |-> << >>]}
       ELSE IF parsed.anchors = << >>
       THEN {[ok |-> FALSE, anchors |-> << >>]}
       ELSE {[ok |-> TRUE, anchors |-> a] : a \in SortByScore(parsed.anchors)}

\* pattern_scan.rs 214-218: get_best
GetBest(pattern) == pattern.anchors[1]

\* mem[start..end] == bytes (0-based, half-open)
BytesAt(mem, start, bytes) ==
    /\ start >= 0
    /\ start + Len(bytes) <= Len(mem)
    /\ \A k \in 1..Len(bytes) : mem[start + k] = bytes[k]

\* memchr::memmem::FindIter::next (external crate): the first occurrence
\* of the needle at or after pos; the next search resumes after the whole
\* occurrence, so occurrences never overlap.  -1 when there is none.
MemmemFind(mem, needle, pos) ==
    LET hits == {i \in pos..(Len(mem) - Len(needle)) :
                    BytesAt(mem, i, needle)}
    IN IF hits = {} THEN 0 - 1
       ELSE CHOOSE i \in hits : \A j \in hits : i <= j

MemmemResume(needle, found) ==
    found + (IF Len(needle) > 1 THEN Len(needle) ELSE 1)

RECURSIVE AnchorsValid(_, _, _, _, _)
\* pattern_scan.rs 267-285: validate the anchors k..n of the pattern for
\* the occurrence; "ok", "skip" (continue 'iter) or "panic" (unwrap of a
\* failed usize::try_from)
AnchorsValid(pattern, mem, occurred_idx, best_offset, k) ==
    IF k > Len(pattern.anchors) THEN "ok"
    ELSE LET anchor == pattern.anchors[k]
             offset == anchor.offset - best_offset
             start  == occurred_idx + offset
             end    == start + Len(anchor.bytes)
         IN IF start < 0 THEN "panic"
            ELSE IF end > Len(mem) THEN "skip"
            ELSE IF ~BytesAt(mem, start, anchor.bytes) THEN "skip"
            ELSE AnchorsValid(pattern, mem, occurred_idx, best_offset, k + 1)

RECURSIVE PatternIteratorNext(_, _, _)
\* pattern_scan.rs 257-292: PatternIterator::next; pos is the position of
\* the memmem iterator
PatternIteratorNext(pattern, mem, pos) ==
    LET needle       == GetBest(pattern).bytes
        occurred_idx == MemmemFind(mem, needle, pos)
        best_offset  == GetBest(pattern).offset
        resume       == MemmemResume(needle, occurred_idx)
        valid        == AnchorsValid(pattern, mem, occurred_idx,
                                     best_offset, 2)
    IN IF occurred_idx < 0
       THEN [res |-> "none", value |-> 0, pos |-> pos]
       ELSE IF valid = "panic"
       THEN [res |-> "panic", value |-> 0, pos |-> resume]
       ELSE IF valid = "skip"
       THEN PatternIteratorNext(pattern, mem, resume)
       ELSE IF occurred_idx - best_offset < 0
       THEN [res |-> "panic", value |-> 0, pos |-> resume]
       ELSE [res |-> "some", value |-> occurred_idx - best_offset,
             pos |-> resume]

\* ------------------------------------------------------------------------
\* Specification of the pattern engine on any pattern and chunk
\* ------------------------------------------------------------------------

MemBytes == {0, 1}

SeqsUpTo(S, n) == UNION {[1..k -> S] : k \in 0..n}

\* Pattern::parse_scored_anchors, then find_pattern_iter on Ok
PtParse ==
    /\ ptPattern.state = "unparsed"
    /\ \E r \in ParseScoredAnchors(ptTokens) :
         IF r.ok
         THEN /\ ptPattern' = [state |-> "ok", anchors |-> r.anchors]
              /\ ptIter' = [ptIter EXCEPT !.status = "iter"]
         ELSE /\ ptPattern' = [state |-> "err", anchors |-> << >>]
              /\ UNCHANGED ptIter
    /\ UNCHANGED <<ptTokens, ptMem>>
    /\ UNCHANGED <<rvVars, ckVars, scVars, fnVars, auxVars>>

\* One call of PatternIterator::next
PtIterNext ==
    /\ ptIter.status = "iter"
    /\ LET r == PatternIteratorNext(ptPattern, ptMem, ptIter.pos)
       IN ptIter' =
            [pos     |-> r.pos,
             yielded |-> IF r.res = "some"
                         THEN Append(ptIter.yielded, r.value)
                         ELSE ptIter.yielded,
             status  |-> CASE r.res = "some"  -> "iter"
                           [] r.res = "none"  -> "done"
                           [] r.res = "panic" -> "panic"]
    /\ UNCHANGED <<ptTokens, ptMem, ptPattern>>
    /\ UNCHANGED <<rvVars, ckVars, scVars, fnVars, auxVars>>

PtNext == PtParse \/ PtIterNext

\* ------------------------------------------------------------------------
\* The target process of the scanner model
\* ------------------------------------------------------------------------

ScAddrs == 0..ScMaxAddr

\* Paths of the model's regions: none, a kernel helper mapping, a file
PathNone == "none"
PathVdso == "[vdso]"
PathFile == "/usr/lib/libc.so"

\* The memory maps the target of the model may have
ScCatalogs ==
    { << >>,
      << Region(0, 3, TRUE, TRUE, PathNone) >>,
      << Region(1, 3, TRUE, TRUE, PathNone) >>,
      << Region(0, 1, TRUE, TRUE, PathNone),
         Region(1, 3, TRUE, FALSE, PathFile) >>,
      << Region(0, 2, TRUE, FALSE, PathNone),
         Region(2, 3, TRUE, TRUE, PathNone) >>,
      << Region(0, 2, TRUE, TRUE, PathVdso),
         Region(2, 3, TRUE, TRUE, PathNone) >> }

\* The target lets process_vm_readv read address a
TargetReadable(a) ==
    /\ tgAlive
    /\ a \in ScAddrs
    /\ a \notin tgBad
    /\ \E k \in 1..Len(tgMaps) :
         tgMaps[k].read /\ tgMaps[k].start <= a /\ a < tgMaps[k].end

RECURSIVE ReadablePrefix(_, _)
\* Number of bytes at the start of [base, base + len) the target lets us
\* read
ReadablePrefix(base, len) ==
    IF len = 0 \/ ~TargetReadable(base) THEN 0
    ELSE 1 + ReadablePrefix(base + 1, len - 1)

\* read_vecs on a batch of requests against the target; the buffers hold
\* the addresses the bytes were read from
ReadBatch(batch) ==
    read_vecs(batch, [k \in 1..Len(batch) |->
                        ReadablePrefix(batch[k].base, batch[k].len)])

\* The bytes of a buffer
BufBytes(buf) == [k \in 1..Len(buf) |-> tgMem[buf[k]]]

\* ------------------------------------------------------------------------
\* num::Value and num::Constraint
\* ------------------------------------------------------------------------

\* Type letters of the model: b (U8) and w (U16)
TypeLetters == {"b", "w"}

\* value.rs 56-69: Value::bytes
ValueBytes(letter) == IF letter = "b" THEN 1 ELSE 2

\* The ten type characters of value.rs 25-34
ValueLetters == {"f", "F", "b", "w", "d", "q", "B", "W", "D", "Q"}

\* Characters of the model's command words: the type characters and three
\* characters that are none
WordChars == ValueLetters \cup {"s", "x", "1"}

\* value.rs 22-37: Value::default_from_letter.  The variant and the zero
\* it holds, or the panic of unreachable!() in the last arm of the match
DefaultFromLetter(chr) ==
    CASE chr = "f" -> [res |-> "value", kind |-> "F32", val |-> 0]
      [] chr = "F" -> [res |-> "value", kind |-> "F64", val |-> 0]
      [] chr = "b" -> [res |-> "value", kind |-> "U8",  val |-> 0]
      [] chr = "w" -> [res |-> "value", kind |-> "U16", val |-> 0]
      [] chr = "d" -> [res |-> "value", kind |-> "U32", val |-> 0]
      [] chr = "q" -> [res |-> "value", kind |-> "U64", val |-> 0]
      [] chr = "B" -> [res |-> "value", kind |-> "I8",  val |-> 0]
      [] chr = "W" -> [res |-> "value", kind |-> "I16", val |-> 0]
      [] chr = "D" -> [res |-> "value", kind |-> "I32", val |-> 0]
      [] chr = "Q" -> [res |-> "value", kind |-> "I64", val |-> 0]
      [] OTHER     -> [res |-> "panic", kind |-> "none", val |-> 0]

\* utils.rs 19-23: parse_value.  arg is the Option<&&str> (the word as its
\* characters); Err when the word or its second character is missing
ParseValue(arg) ==
    IF ~arg.some \/ Len(arg.buf) < 2
    THEN [res |-> "err", kind |-> "none", val |-> 0]
    ELSE DefaultFromLetter(arg.buf[2])

RECURSIVE FromLeBytes(_)
\* value.rs 88-111: Value::from_le_bytes for the unsigned integers
FromLeBytes(bytes) ==
    IF bytes = << >> THEN 0
    ELSE Head(bytes) + 256 * FromLeBytes(Tail(bytes))

\* num::Constraint: a comparison of the value with a literal
Constraints == {[op |-> "eq", lit |-> 1], [op |-> "ne", lit |-> 0]}

\* num::Constraint of the delta style, "increased by lit".  What
\* Constraint::from_str_value (utils.rs 31) can build it from is the token
\* and the Value handed to it, so the previous value it compares with is
\* one value held by the constraint itself
DeltaConstraints ==
    {[op |-> "inc", lit |-> 1, prev |-> p] : p \in {0, 1}}

\* Constraint::check, called with the candidate value alone (scan.rs 55,
\* rescan.rs 45, utils.rs 124)
Check(c, value) ==
    CASE c.op = "eq"  -> value = c.lit
      [] c.op = "ne"  -> value # c.lit
      [] c.op = "inc" -> value = c.prev + c.lit

\* ------------------------------------------------------------------------
\* commands: scan, rescan, pattern scan, string scan
\* ------------------------------------------------------------------------

RECURSIVE Concat(_)
Concat(seqs) == IF seqs = << >> THEN << >> ELSE Head(seqs) \o Concat(Tail(seqs))

\* RwRegions keeping every readable region, writable or not
RwRegionsReadOnlyToo(maps) == SelectSeq(maps, LAMBDA r : r.read)

\* Maps::rw_regions (proc_maps.rs 217-219)
RwRegions(maps) == SelectSeq(maps, LAMBDA r : r.read /\ r.write)

\* Maps::r_regions (proc_maps.rs 222-224)
RRegions(maps) == SelectSeq(maps, LAMBDA r : r.read)

\* Region::is_interesting (proc_maps.rs 90-122)
IsInteresting(r) == r.read /\ r.path # PathVdso

\* Maps::interesting_regions (proc_maps.rs 230-234)
InterestingRegions(maps) == SelectSeq(RwRegions(maps), IsInteresting)

\* u64::MAX, cut to the largest integer of the model checker; every
\* address of the model is far below it
U64Max == 2147483647

\* scan.rs 24 (pattern_scan.rs 29, string_scan.rs 22): end 0 is u64::MAX
EndOrMax(end) == IF end = 0 THEN U64Max ELSE end

\* MatchesInBuffer collecting an address as soon as one constraint holds
MatchesInBufferAny(iovec, buf, bytes, constraints) ==
    LET n     == Len(buf) \div bytes
        chunk(offset) == SubSeq(buf, offset * bytes + 1, (offset + 1) * bytes)
        hit(offset) ==
            \E k \in 1..Len(constraints) :
                Check(constraints[k], FromLeBytes(BufBytes(chunk(offset))))
        abs(offset) == iovec.base + offset * bytes
    IN Concat([o \in 1..n |->
                 IF hit(o - 1) THEN << abs(o - 1) >> ELSE << >>])

\* scan.rs 49-61 (rescan.rs 38-49): the matches found in one buffer, with
\* mem.chunks_exact(value.bytes()).enumerate()
MatchesInBuffer(iovec, buf, bytes, constraints) ==
    LET n     == Len(buf) \div bytes
        chunk(offset) == SubSeq(buf, offset * bytes + 1, (offset + 1) * bytes)
        hit(offset) ==
            \A k \in 1..Len(constraints) :
                Check(constraints[k], FromLeBytes(BufBytes(chunk(offset))))
        abs(offset) == iovec.base + offset * bytes
    IN Concat([o \in 1..n |->
                 IF hit(o - 1) THEN << abs(o - 1) >> ELSE << >>])

\* scan.rs 39-62 (rescan.rs 28-51): read one batch and scan the buffers
\* that were read
MatchesInBatch(batch, bytes, constraints) ==
    LET memory == ReadBatch(batch)
    IN Concat([k \in 1..Len(batch) |->
                 IF memory[k].some
                 THEN MatchesInBuffer(batch[k], memory[k].buf, bytes,
                                      constraints)
                 ELSE << >>])

\* <[T]>::chunks(n): consecutive groups of n elements, the last one shorter
SliceChunks(seq, n) ==
    [k \in 1..((Len(seq) + n - 1) \div n) |->
        SubSeq(seq, (k - 1) * n + 1,
               IF k * n < Len(seq) THEN k * n ELSE Len(seq))]

\* RescanIoVecs asking for two values at each address
RescanIoVecsWide(res, bytes) ==
    LET addrs == Concat(res)
    IN [k \in 1..Len(addrs) |-> IoVec(addrs[k], 2 * bytes)]

\* rescan.rs 20-23: one request of value.bytes() bytes per address held in
\* s.results
RescanIoVecs(res, bytes) ==
    LET addrs == Concat(res)
    IN [k \in 1..Len(addrs) |-> IoVec(addrs[k], bytes)]

\* rescan.rs 28: the batches of a rescan
RescanBatches(res, bytes) ==
    SliceChunks(RescanIoVecs(res, bytes), CHUNK_SIZE \div bytes)

\* utils.rs 52-53 (scan.rs 80-81, rescan.rs 69-70): `s.results = matches`
\* when there is a match; s.results then holds these matches and nothing
\* else
SaveResults(res, matches) ==
    IF matches = << >> THEN res ELSE << matches >>

RECURSIVE FindPatternAll(_, _, _, _)
\* pattern_scan.rs 58-60: drain find_pattern_iter over one buffer
FindPatternAll(pattern, mem, pos, acc) ==
    LET r == PatternIteratorNext(pattern, mem, pos)
    IN IF r.res = "none" THEN [panic |-> FALSE, offsets |-> acc]
       ELSE IF r.res = "panic" THEN [panic |-> TRUE, offsets |-> acc]
       ELSE FindPatternAll(pattern, mem, r.pos, Append(acc, r.value))

RECURSIVE MemmemFindAll(_, _, _)
\* memchr::memmem::find_iter (external crate), drained
MemmemFindAll(mem, needle, pos) ==
    LET found == MemmemFind(mem, needle, pos)
    IN IF found < 0 THEN << >>
       ELSE << found >> \o MemmemFindAll(mem, needle,
                                         MemmemResume(needle, found))

\* The record of a command: what it was, how it ended, the matches it
\* collected, the sizes of the batches it handed to read_vecs and, for a
\* rescan, the addresses of s.results it was run against
CmdFrom(kind, status, matches, batches, source) ==
    [kind |-> kind, status |-> status, matches |-> matches,
     batches |-> {Len(batches[k]) : k \in 1..Len(batches)},
     source |-> source]

Cmd(kind, status, matches, batches) ==
    CmdFrom(kind, status, matches, batches, << >>)

\* The <start> <end> arguments of the model's commands; end 0 is "no end"
ScRanges == {<<0, 0>>, <<1, 0>>, <<0, 2>>}

\* The patterns of the scanner model's pattern scans
ScPatterns == { << >>, << "??" >>, << "01" >>, << "??", "01" >>,
                << "01", "01" >>, << "00", "??", "01" >> }

\* The needles of the scanner model's string scans (<< >>: text missing)
ScNeedles == { << >>, << 1 >>, << 0, 1 >> }

\* Addresses at which the target may refuse a read although it maps them
ScBadSets == { {}, {1} }

\* A word num::parse rejects: it is no number
BadNum == 0 - 1

\* utils.rs 10-16: parse_arg gives Ok for the word
ParseArgOk(word) == word # BadNum

\* A word Constraint::from_str_value rejects
BadConstraint == [op |-> "bad", lit |-> 0]

\* ParseConstraintsOk without the check of line 28
ParseConstraintsOkNoEmptyCheck(args) ==
    \A k \in 1..Len(args) : args[k] # BadConstraint

\* utils.rs 26-34: parse_constraints gives Ok for the words
ParseConstraintsOk(args) ==
    /\ args # << >>
    /\ \A k \in 1..Len(args) : args[k] # BadConstraint

\* The constraint lists of the model that parse
ValidConstraints == SeqsUpTo(Constraints, MaxConstraints) \ {<< >>}

\* Command lines of the full scan: the command word, <start> <end> and the
\* constraints
ScanGoodArgs ==
    {[word |-> << "s", l >>, start |-> r[1], end |-> r[2],
      constraints |-> c] :
        l \in TypeLetters, r \in ScRanges, c \in ValidConstraints}

\* Command lines of the full scan with one argument missing or malformed
ScanBadArgs ==
    LET good == [word |-> << "s", "b" >>, start |-> 0, end |-> 0,
                 constraints |-> << [op |-> "eq", lit |-> 1] >>]
    IN {[good EXCEPT !.word = << "s" >>],
        [good EXCEPT !.start = BadNum],
        [good EXCEPT !.end = BadNum],
        [good EXCEPT !.constraints = << >>],
        [good EXCEPT !.constraints = << BadConstraint >>]}

ScanArgs == ScanGoodArgs \cup ScanBadArgs

\* Command lines of the rescan
RescanArgs ==
    {[word |-> << "u", l >>, constraints |-> c] :
        l \in TypeLetters, c \in ValidConstraints}
    \cup {[word |-> << "u" >>,
           constraints |-> << [op |-> "eq", lit |-> 1] >>],
          [word |-> << "u", "b" >>, constraints |-> << >>],
          [word |-> << "u", "b" >>, constraints |-> << BadConstraint >>]}

\* Command lines of the pattern scan; "zz" is no hexadecimal byte
PatternArgs ==
    {[start |-> r[1], end |-> r[2], tokens |-> t] :
        r \in ScRanges, t \in ScPatterns}
    \cup {[start |-> BadNum, end |-> 0, tokens |-> << "01" >>],
          [start |-> 0, end |-> BadNum, tokens |-> << "01" >>],
          [start |-> 0, end |-> 0, tokens |-> << "01", "zz" >>]}

\* Command lines of the string scan
StringArgs ==
    {[start |-> r[1], end |-> r[2], needle |-> n] :
        r \in ScRanges, n \in ScNeedles}
    \cup {[start |-> BadNum, end |-> 0, needle |-> << 1 >>],
          [start |-> 0, end |-> BadNum, needle |-> << 1 >>]}

\* <start> <end> arguments that leave nothing to scan: an inverted range
\* and an empty one
ScEdgeRanges == {<<2, 1>>, <<1, 1>>}

\* Command lines of the three scans over such a range
ScanEdgeArgs ==
    {[word |-> << "s", "b" >>, start |-> r[1], end |-> r[2],
      constraints |-> << [op |-> "eq", lit |-> 1] >>] : r \in ScEdgeRanges}
PatternEdgeArgs ==
    {[start |-> r[1], end |-> r[2], tokens |-> << "01" >>] :
        r \in ScEdgeRanges}
StringEdgeArgs ==
    {[start |-> r[1], end |-> r[2], needle |-> << 1 >>] :
        r \in ScEdgeRanges}

\* How a handler ended: "ok" (Ok(())), "err" (Err(message)), "panic" (the
\* process is gone) or "noop"; the matches it collected; the batches it
\* handed to read_vecs; how often it read the map description and whether
\* such a read failed
Outcome(status, matches, batches, maps_reads, maps_failed) ==
    [status |-> status, matches |-> matches, batches |-> batches,
     maps_reads |-> maps_reads, maps_failed |-> maps_failed]

\* Err(message) from the parsing of the arguments
ArgFailure == Outcome("err", << >>, << >>, 0, FALSE)

\* Err("Couldn't parse memory map ...") (scan.rs 30-31)
MapsFailure == Outcome("err", << >>, << >>, 1, TRUE)

\* utils.rs 42: more than this many results are counted, not listed
PrintMany == 10

\* utils.rs 60-75: print_results; its interesting_regions(pid).unwrap()
\* panics when the map description cannot be read
PrintResults(num, maps_readable) ==
    IF num = 0 THEN "ok"
    ELSE IF ~maps_readable THEN "panic"
    ELSE "ok"

\* utils.rs 37-55: print_and_save_results up to the assignment of line 53
PrintAndSaveResults(matches, maps_readable) ==
    IF matches = << >> THEN "ok"
    ELSE IF Len(matches) > PrintMany THEN "ok"
    ELSE PrintResults(U64Max, maps_readable)

\* utils.rs 39-50: the number of calls of print_results (each reads the
\* map description once)
PrintCalls(matches) ==
    IF matches = << >> \/ Len(matches) > PrintMany THEN 0 ELSE 1

\* scan.rs 15-85: the handler of the full scan
ScanRun(args) ==
    LET value == ParseValue(Some(args.word))
    IN IF value.res = "panic" THEN Outcome("panic", << >>, << >>, 0, FALSE)
       ELSE IF value.res = "err" THEN ArgFailure
       ELSE IF ~ParseArgOk(args.start) \/ ~ParseArgOk(args.end)
       THEN ArgFailure
       ELSE IF ~ParseConstraintsOk(args.constraints) THEN ArgFailure
       ELSE IF ~tgAlive THEN MapsFailure
       ELSE LET bytes   == ValueBytes(args.word[2])
                maps    == RwRegions(tgMaps)
                batches == ChunksAll(ChunksClip(maps,
                              [start |-> args.start,
                               end   |-> EndOrMax(args.end)]))
                matches == Concat([k \in 1..Len(batches) |->
                              MatchesInBatch(batches[k], bytes,
                                             args.constraints)])
            IN Outcome("ok", matches, batches, 1, FALSE)

\* rescan.rs 12-74: the handler of the rescan; it reads no map description
RescanRun(args) ==
    LET value == ParseValue(Some(args.word))
    IN IF value.res = "panic" THEN Outcome("panic", << >>, << >>, 0, FALSE)
       ELSE IF value.res = "err" THEN ArgFailure
       ELSE IF ~ParseConstraintsOk(args.constraints) THEN ArgFailure
       ELSE LET bytes   == ValueBytes(args.word[2])
                batches == RescanBatches(results, bytes)
                matches == Concat([k \in 1..Len(batches) |->
                              MatchesInBatch(batches[k], bytes,
                                             args.constraints)])
            IN Outcome("ok", matches, batches, 0, FALSE)

\* pattern_scan.rs 23-67: the handler of the pattern scan, for one of the
\* orders sort_by_score may leave the anchors in; dies: the target exits
\* once its memory was read, before the results are printed
PatternScanRun(args, pattern, dies) ==
    IF ~ParseArgOk(args.start) \/ ~ParseArgOk(args.end) THEN ArgFailure
    ELSE IF ~pattern.ok THEN ArgFailure
    ELSE IF ~tgAlive THEN MapsFailure
    ELSE LET maps    == SelectSeq(RRegions(tgMaps), IsInteresting)
             batches == ChunksAll(ChunksClip(maps,
                           [start |-> args.start,
                            end   |-> EndOrMax(args.end)]))
             found   == [b \in 1..Len(batches) |->
                 LET memory == ReadBatch(batches[b])
                 IN [k \in 1..Len(batches[b]) |->
                       IF memory[k].some
                       THEN FindPatternAll(pattern,
                               BufBytes(memory[k].buf), 0, << >>)
                       ELSE [panic |-> FALSE, offsets |-> << >>]]]
             panics  == \E b \in 1..Len(batches) :
                          \E k \in 1..Len(batches[b]) :
                             found[b][k].panic
             matches == Concat([b \in 1..Len(batches) |->
                 Concat([k \in 1..Len(batches[b]) |->
                    [j \in 1..Len(found[b][k].offsets) |->
                        batches[b][k].base + found[b][k].offsets[j]]])])
             printed == PrintAndSaveResults(matches, ~dies)
         IN IF panics THEN Outcome("panic", << >>, batches, 1, FALSE)
            ELSE IF printed = "panic"
            THEN Outcome("panic", << >>, batches, 2, TRUE)
            ELSE Outcome("ok", matches, batches, 1 + PrintCalls(matches),
                         FALSE)

\* string_scan.rs 16-84: the handler of the string scan (ss: the needle is
\* the text's bytes); dies as in the pattern scan
StringScanRun(args, dies) ==
    IF ~ParseArgOk(args.start) \/ ~ParseArgOk(args.end) THEN ArgFailure
    ELSE IF args.needle = << >> THEN ArgFailure
    ELSE IF ~tgAlive THEN MapsFailure
    ELSE LET maps    == InterestingRegions(tgMaps)
             batches == ChunksAll(ChunksClip(maps,
                           [start |-> args.start,
                            end   |-> EndOrMax(args.end)]))
             found   == [b \in 1..Len(batches) |->
                 LET memory == ReadBatch(batches[b])
                 IN [k \in 1..Len(batches[b]) |->
                       IF memory[k].some
                       THEN MemmemFindAll(BufBytes(memory[k].buf),
                                          args.needle, 0)
                       ELSE << >>]]
             matches == Concat([b \in 1..Len(batches) |->
                 Concat([k \in 1..Len(batches[b]) |->
                    [j \in 1..Len(found[b][k]) |->
                        batches[b][k].base + found[b][k][j]]])])
             printed == PrintAndSaveResults(matches, ~dies)
         IN IF printed = "panic"
            THEN Outcome("panic", << >>, batches, 2, TRUE)
            ELSE Outcome("ok", matches, batches, 1 + PrintCalls(matches),
                         FALSE)

RECURSIVE DiffMergeNoTail(_, _, _, _, _)
\* DiffMerge without line 32: what is left of `last` is dropped
DiffMergeNoTail(base, last, i, j, diff) ==
    IF i < Len(last) /\ j < Len(base)
    THEN IF last[i + 1] < base[j + 1]
         THEN DiffMergeNoTail(base, last, i + 1, j,
                              Append(diff, last[i + 1]))
         ELSE IF last[i + 1] = base[j + 1]
         THEN DiffMergeNoTail(base, last, i + 1, j + 1, diff)
         ELSE DiffMergeNoTail(base, last, i, j + 1, diff)
    ELSE diff

RECURSIVE DiffMerge(_, _, _, _, _)
\* diff.rs 18-32: the merge of `last` against `base`; i and j as in the
\* source
DiffMerge(base, last, i, j, diff) ==
    IF i < Len(last) /\ j < Len(base)
    THEN IF last[i + 1] < base[j + 1]
         THEN DiffMerge(base, last, i + 1, j, Append(diff, last[i + 1]))
         ELSE IF last[i + 1] = base[j + 1]
         THEN DiffMerge(base, last, i + 1, j + 1, diff)
         ELSE DiffMerge(base, last, i, j + 1, diff)
    ELSE diff \o SubSeq(last, i + 1, Len(last))

\* diff.rs 10-37: the handler of diff; matches is the vector it hands to
\* print_results
DiffRun ==
    IF Len(results) # 2 THEN Outcome("noop", << >>, << >>, 0, FALSE)
    ELSE LET base == results[1]
             last == results[Len(results)]
             diff == DiffMerge(base, last, 0, 0, << >>)
         IN IF PrintResults(U64Max, tgAlive) = "panic"
            THEN Outcome("panic", diff, << >>, 1, TRUE)
            ELSE Outcome("ok", diff, << >>, 1, FALSE)

\* What a handler leaves in the scanner: the record of the command and
\* s.results
Finish(kind, r, source) ==
    /\ cmd' = CmdFrom(kind, r.status, r.matches, r.batches, source)
    /\ results' = SaveResults(results, r.matches)

\* The target writes its own memory
TargetWrite ==
    /\ cmd.status # "panic"
    /\ tgAlive
    /\ \E a \in ScAddrs : \E b \in MemBytes :
         /\ tgMem[a] # b
         /\ tgMem' = [tgMem EXCEPT ![a] = b]
    /\ UNCHANGED <<tgMaps, tgBad, tgAlive, results, cmd, scTrace>>
    /\ UNCHANGED <<rvVars, ckVars, ptVars, fnVars, auxVars>>

\* The target exits: its map description and its memory are gone
TargetExit ==
    /\ cmd.status # "panic"
    /\ tgAlive
    /\ tgAlive' = FALSE
    /\ UNCHANGED <<tgMaps, tgMem, tgBad, results, cmd, scTrace>>
    /\ UNCHANGED <<rvVars, ckVars, ptVars, fnVars, auxVars>>

\* The full scan commands (sb, sw)
Scan ==
    /\ cmd.status # "panic"
    /\ \E args \in ScanArgs : Finish("scan", ScanRun(args), << >>)
    /\ UNCHANGED <<tgMaps, tgMem, tgBad, tgAlive, scTrace>>
    /\ UNCHANGED <<rvVars, ckVars, ptVars, fnVars, auxVars>>

\* The rescan commands (ub, uw)
Rescan ==
    /\ cmd.status # "panic"
    /\ \E args \in RescanArgs :
         Finish("rescan", RescanRun(args), Concat(results))
    /\ UNCHANGED <<tgMaps, tgMem, tgBad, tgAlive, scTrace>>
    /\ UNCHANGED <<rvVars, ckVars, ptVars, fnVars, auxVars>>

\* The pattern scan command
PatternScan ==
    /\ cmd.status # "panic"
    /\ \E args \in PatternArgs, dies \in BOOLEAN :
       \E pattern \in ParseScoredAnchors(args.tokens) :
         /\ Finish("pattern", PatternScanRun(args, pattern, dies), << >>)
         /\ tgAlive' = (tgAlive /\ ~dies)
    /\ UNCHANGED <<tgMaps, tgMem, tgBad, scTrace>>
    /\ UNCHANGED <<rvVars, ckVars, ptVars, fnVars, auxVars>>

\* The string scan command
StringScan ==
    /\ cmd.status # "panic"
    /\ \E args \in StringArgs, dies \in BOOLEAN :
         /\ Finish("string", StringScanRun(args, dies), << >>)
         /\ tgAlive' = (tgAlive /\ ~dies)
    /\ UNCHANGED <<tgMaps, tgMem, tgBad, scTrace>>
    /\ UNCHANGED <<rvVars, ckVars, ptVars, fnVars, auxVars>>

\* The diff command; it leaves s.results alone
Diff ==
    /\ cmd.status # "panic"
    /\ cmd' = Cmd("diff", DiffRun.status, DiffRun.matches, << >>)
    /\ UNCHANGED <<tgMaps, tgMem, tgBad, tgAlive, results, scTrace>>
    /\ UNCHANGED <<rvVars, ckVars, ptVars, fnVars, auxVars>>

ScNext ==
    \/ TargetWrite \/ TargetExit
    \/ Scan \/ Rescan \/ PatternScan \/ StringScan \/ Diff

\* ------------------------------------------------------------------------
\* One command against any target, with a record of its arguments, of the
\* requests it handed to read_vecs and of its reads of the map description
\* ------------------------------------------------------------------------

\* The requests of the batches in the order they were issued, each with
\* whether read_vecs returned Some for it
ReqsOf(batches) ==
    Concat([b \in 1..Len(batches) |->
        LET memory == ReadBatch(batches[b])
        IN [k \in 1..Len(batches[b]) |->
              [base |-> batches[b][k].base, len |-> batches[b][k].len,
               some |-> memory[k].some]]])

Trace(args, r) ==
    [args |-> args, reqs |-> ReqsOf(r.batches),
     maps_reads |-> r.maps_reads, maps_failed |-> r.maps_failed]

\* No command has been run yet
Fresh == cmd.kind = "none"

\* utils.rs 94-140: scan_batch.  The chunks are scanned in parallel and
\* each worker appends its local_results under the lock, in whatever
\* order the workers get there: the possible contents of `matches`
ScanBatch(matches, batch, bytes, constraints) ==
    LET memory == ReadBatch(batch)
        chunks == SelectSeq([k \in 1..Len(batch) |-> k],
                            LAMBDA k : memory[k].some)
        local(k) == MatchesInBuffer(batch[k], memory[k].buf, bytes,
                                    constraints)
    IN {matches \o Concat([i \in 1..Len(chunks) |-> local(chunks[f[i]])]) :
           f \in Perms(Len(chunks))}

ScanCmd ==
    /\ Fresh
    /\ \E args \in ScanArgs \cup ScanEdgeArgs :
         LET r == ScanRun(args)
         IN Finish("scan", r, << >>) /\ scTrace' = Trace(args, r)
    /\ UNCHANGED <<tgMaps, tgMem, tgBad, tgAlive>>
    /\ UNCHANGED <<rvVars, ckVars, ptVars, fnVars, auxVars>>

RescanCmd ==
    /\ Fresh
    /\ \E args \in RescanArgs :
         LET r == RescanRun(args)
         IN /\ Finish("rescan", r, Concat(results))
            /\ scTrace' = Trace(args, r)
    /\ UNCHANGED <<tgMaps, tgMem, tgBad, tgAlive>>
    /\ UNCHANGED <<rvVars, ckVars, ptVars, fnVars, auxVars>>

PatternScanCmd ==
    /\ Fresh
    /\ \E args \in PatternArgs \cup PatternEdgeArgs, dies \in BOOLEAN :
       \E pattern \in ParseScoredAnchors(args.tokens) :
         LET r == PatternScanRun(args, pattern, dies)
         IN /\ Finish("pattern", r, << >>)
            /\ scTrace' = Trace(args, r)
            /\ tgAlive' = (tgAlive /\ ~dies)
    /\ UNCHANGED <<tgMaps, tgMem, tgBad>>
    /\ UNCHANGED <<rvVars, ckVars, ptVars, fnVars, auxVars>>

StringScanCmd ==
    /\ Fresh
    /\ \E args \in StringArgs \cup StringEdgeArgs, dies \in BOOLEAN :
         LET r == StringScanRun(args, dies)
         IN /\ Finish("string", r, << >>)
            /\ scTrace' = Trace(args, r)
            /\ tgAlive' = (tgAlive /\ ~dies)
    /\ UNCHANGED <<tgMaps, tgMem, tgBad>>
    /\ UNCHANGED <<rvVars, ckVars, ptVars, fnVars, auxVars>>

\* scan_batch called with an empty `matches` on one of the batches a full
\* scan plans
ScanBatchCmd ==
    /\ Fresh
    /\ tgAlive
    /\ \E args \in ScanGoodArgs :
         LET batches == ChunksAll(ChunksClip(RwRegions(tgMaps),
                           [start |-> args.start,
                            end   |-> EndOrMax(args.end)]))
         IN \E b \in 1..Len(batches) :
            \E m \in ScanBatch(<< >>, batches[b],
                               ValueBytes(args.word[2]), args.constraints) :
              /\ cmd' = Cmd("scan_batch", "ok", m, << batches[b] >>)
              /\ scTrace' = Trace(args,
                     Outcome("ok", m, << batches[b] >>, 1, FALSE))
    /\ UNCHANGED <<tgMaps, tgMem, tgBad, tgAlive, results>>
    /\ UNCHANGED <<rvVars, ckVars, ptVars, fnVars, auxVars>>

CmNext ==
    ScanCmd \/ RescanCmd \/ PatternScanCmd \/ StringScanCmd \/ ScanBatchCmd

\* ------------------------------------------------------------------------
\* Lookup of the region of an address
\* ------------------------------------------------------------------------

\* RegionCmp taking the end of a region for a part of it
RegionCmpEndInclusive(region, addr) ==
    IF region.start > addr THEN "Greater"
    ELSE IF region.start <= addr /\ region.end >= addr THEN "Equal"
    ELSE "Less"

\* utils.rs 80-88 (and, word for word, region.rs 22-30): the comparator
\* handed to binary_search_by
RegionCmp(region, addr) ==
    IF region.start > addr THEN "Greater"
    ELSE IF region.start <= addr /\ region.end > addr THEN "Equal"
    ELSE "Less"

RECURSIVE BinarySearchLoop(_, _, _, _)
\* <[T]>::binary_search_by (core): the loop that halves `size`; base is
\* 0-based
BinarySearchLoop(regions, addr, base, size) ==
    IF size > 1
    THEN LET half == size \div 2
             mid  == base + half
         IN BinarySearchLoop(regions, addr,
                IF RegionCmp(regions[mid + 1], addr) = "Greater"
                THEN base ELSE mid,
                size - half)
    ELSE base

\* <[T]>::binary_search_by (core): the 1-based index for Ok(index), 0 for
\* Err
BinarySearchBy(regions, addr) ==
    IF Len(regions) = 0 THEN 0
    ELSE LET base == BinarySearchLoop(regions, addr, 0, Len(regions))
         IN IF RegionCmp(regions[base + 1], addr) = "Equal"
            THEN base + 1 ELSE 0

\* utils.rs 78-91: get_addr_region; the index of the region, 0 for None
GetAddrRegion(regions, addr) == BinarySearchBy(regions, addr)

\* region.rs 22-34: the region the region command prints, 0 for none
RegionShown(regions, addr) == BinarySearchBy(regions, addr)

\* The addresses looked up: every address of the catalogs and one past
\* the last
LkAddrs == 0..(MaxAddr + 1)

\* One lookup of an address by get_addr_region and by the region command
Lookup ==
    /\ lk.pc = "idle"
    /\ \E addr \in LkAddrs :
         lk' = [pc |-> "done", addr |-> addr,
                found |-> GetAddrRegion(ckMaps, addr),
                shown |-> RegionShown(ckMaps, addr)]
    /\ UNCHANGED vl
    /\ UNCHANGED <<rvVars, ckVars, ptVars, scVars, auxVars>>

LkNext == Lookup

\* ------------------------------------------------------------------------
\* parse_value on any word
\* ------------------------------------------------------------------------

\* The Option<&&str> handed to parse_value: no word, or a word
ValueArgs == {None} \cup {Some(w) : w \in SeqsUpTo(WordChars, MaxWordLen)}

\* One call of parse_value
ParseValueCall ==
    /\ vl.pc = "idle"
    /\ vl' = [pc |-> "done", arg |-> vl.arg, out |-> ParseValue(vl.arg)]
    /\ UNCHANGED lk
    /\ UNCHANGED <<rvVars, ckVars, ptVars, scVars, auxVars>>

VlNext == ParseValueCall

\* ------------------------------------------------------------------------
\* A full scan, writes of the target, and rescans with a delta constraint
\* ------------------------------------------------------------------------

\* The values now held by the addresses saved in s.results, or the values
\* kept before when nothing is saved (utils.rs 52-53, rescan.rs 69-70)
PriorAfter(matches) ==
    IF matches = << >> THEN prior
    ELSE [a \in ScAddrs |->
            IF \E k \in 1..Len(matches) : matches[k] = a
            THEN tgMem[a] ELSE 0]

\* `sb 0 0 <constraint>`
DlScan ==
    /\ cmd.status # "panic"
    /\ \E c \in Constraints :
         LET args == [word |-> << "s", "b" >>, start |-> 0, end |-> 0,
                      constraints |-> << c >>]
             r    == ScanRun(args)
         IN /\ Finish("scan", r, << >>)
            /\ scTrace' = Trace(args, r)
            /\ prior' = PriorAfter(r.matches)
    /\ UNCHANGED <<tgMaps, tgMem, tgBad, tgAlive, sb, ro, an, os, rr, cl>>
    /\ UNCHANGED <<rvVars, ckVars, ptVars, fnVars>>

\* `ub <delta constraint>`
DlRescan ==
    /\ cmd.status # "panic"
    /\ \E c \in DeltaConstraints :
         LET args == [word |-> << "u", "b" >>, constraints |-> << c >>]
             r    == RescanRun(args)
         IN /\ Finish("rescan", r, Concat(results))
            /\ scTrace' = Trace(args, r)
            /\ prior' = PriorAfter(r.matches)
    /\ UNCHANGED <<tgMaps, tgMem, tgBad, tgAlive, sb, ro, an, os, rr, cl>>
    /\ UNCHANGED <<rvVars, ckVars, ptVars, fnVars>>

DlNext == DlScan \/ TargetWrite \/ DlRescan

\* ------------------------------------------------------------------------
\* scan_batch, one step of one worker at a time
\* ------------------------------------------------------------------------

\* The contents `matches` may have when scan_batch is called
SbMatches == { << >>, << 0 >>, << 2, 0 >> }

\* guard.extend(local_results) overwriting what the vector holds
ExtendGuardOverwrite(guard, local_results) == local_results

\* utils.rs 132-133: guard.extend(local_results)
ExtendGuard(guard, local_results) == guard \o local_results

\* utils.rs 101-111: read the batch, keep the chunks that were read and
\* start one task per chunk (par_iter) on an empty shared vector
SbCall ==
    /\ sb.pc = "idle"
    /\ tgAlive
    /\ \E l \in TypeLetters, c \in ValidConstraints, m \in SbMatches :
         LET batches == ChunksAll(ChunksClip(RwRegions(tgMaps),
                           [start |-> 0, end |-> U64Max]))
         IN \E b \in 1..Len(batches) :
              LET batch  == batches[b]
                  memory == ReadBatch(batch)
                  read   == SelectSeq([k \in 1..Len(batch) |-> k],
                                      LAMBDA k : memory[k].some)
              IN sb' = [pc |-> "par", matches |-> m, before |-> m,
                        bytes |-> ValueBytes(l), constraints |-> c,
                        chunks |-> [i \in 1..Len(read) |->
                                      [iovec |-> batch[read[i]],
                                       mem |-> memory[read[i]].buf]],
                        results |-> << >>, lock |-> 0,
                        workers |-> [i \in 1..Len(read) |->
                                      [pc |-> "scan", offset |-> 0,
                                       local_results |-> << >>, v |-> 0]]]
    /\ UNCHANGED <<prior, ro, an, os, rr, cl>>
    /\ UNCHANGED <<rvVars, ckVars, ptVars, scVars, fnVars>>

\* utils.rs 120-131: one turn of a worker's loop over its chunk, or the
\* end of the loop
WorkerScan(w) ==
    /\ sb.pc = "par"
    /\ sb.workers[w].pc = "scan"
    /\ LET me    == sb.workers[w]
           iovec == sb.chunks[w].iovec
           mem   == sb.chunks[w].mem
           n     == Len(mem) \div sb.bytes
           chunk == SubSeq(mem, me.offset * sb.bytes + 1,
                           (me.offset + 1) * sb.bytes)
           v     == FromLeBytes(BufBytes(chunk))
           abs   == iovec.base + me.offset * sb.bytes
       IN IF me.offset < n
          THEN sb' = [sb EXCEPT ![
                  "workers"][w] =
                     [me EXCEPT !.v = v, !.offset = me.offset + 1,
                        !.local_results =
                           IF \A k \in 1..Len(sb.constraints) :
                                 Check(sb.constraints[k], v)
                           THEN Append(me.local_results, abs)
                           ELSE me.local_results]]
          ELSE sb' = [sb EXCEPT !["workers"][w].pc =
                        IF me.local_results = << >> THEN "done"
                        ELSE "lock"]
    /\ UNCHANGED <<prior, ro, an, os, rr, cl>>
    /\ UNCHANGED <<rvVars, ckVars, ptVars, scVars, fnVars>>

\* utils.rs 132: results.lock() once the lock is free
WorkerLock(w) ==
    /\ sb.pc = "par"
    /\ sb.workers[w].pc = "lock"
    /\ sb.lock = 0
    /\ sb' = [sb EXCEPT !.lock = w, !["workers"][w].pc = "extend"]
    /\ UNCHANGED <<prior, ro, an, os, rr, cl>>
    /\ UNCHANGED <<rvVars, ckVars, ptVars, scVars, fnVars>>

\* utils.rs 133-134: guard.extend(local_results); the guard is dropped
WorkerExtend(w) ==
    /\ sb.pc = "par"
    /\ sb.workers[w].pc = "extend"
    /\ sb' = [sb EXCEPT
                !.results = ExtendGuard(sb.results,
                                        sb.workers[w].local_results),
                !.lock = 0,
                !["workers"][w].pc = "done"]
    /\ UNCHANGED <<prior, ro, an, os, rr, cl>>
    /\ UNCHANGED <<rvVars, ckVars, ptVars, scVars, fnVars>>

\* utils.rs 138-139: every worker has ended; matches.extend(guard.drain(..))
SbDrain ==
    /\ sb.pc = "par"
    /\ \A w \in 1..Len(sb.workers) : sb.workers[w].pc = "done"
    /\ sb.lock = 0
    /\ sb' = [sb EXCEPT !.pc = "done",
                        !.matches = sb.matches \o sb.results,
                        !.results = << >>]
    /\ UNCHANGED <<prior, ro, an, os, rr, cl>>
    /\ UNCHANGED <<rvVars, ckVars, ptVars, scVars, fnVars>>

\* Any worker takes its next step
SbScan == \E w \in 1..Len(sb.workers) : WorkerScan(w)

SbLock == \E w \in 1..Len(sb.workers) : WorkerLock(w)

SbExtend == \E w \in 1..Len(sb.workers) : WorkerExtend(w)

SbNext == SbCall \/ SbScan \/ SbLock \/ SbExtend \/ SbDrain

\* ------------------------------------------------------------------------
\* commands: history, region, maps, diff, display
\* ------------------------------------------------------------------------

\* args.get(k) is None: the command line has no such word
NoArg == 0 - 2

\* utils.rs 10-16: parse_arg gives Ok for the word
ParseArg(word) == word # NoArg /\ word # BadNum

\* usize::saturating_sub
SaturatingSub(a, b) == IF a > b THEN a - b ELSE 0

\* utils.rs 67: results.iter().take(num)
Take(seq, num) == SubSeq(seq, 1, Min(num, Len(seq)))

\* How a listing command ended, the history entry it selected (1-based,
\* 0 for none), what it printed, the chunk lengths it handed to
\* from_le_bytes, and the s.results it leaves
RoOutcome(status, sel, out, decoded, res) ==
    [status |-> status, sel |-> sel, out |-> out, decoded |-> decoded,
     results |-> res]

\* s.results.get(idx) taking the entry out of the history
HistoryGetRemoving(res, idx) ==
    IF idx < Len(res)
    THEN [some |-> TRUE, entry |-> res[idx + 1],
          results |-> SubSeq(res, 1, idx) \o SubSeq(res, idx + 2, Len(res))]
    ELSE [some |-> FALSE, entry |-> << >>, results |-> res]

\* history.rs 26: s.results.get(idx), idx 0-based
HistoryGet(res, idx) ==
    IF idx < Len(res)
    THEN [some |-> TRUE, entry |-> res[idx + 1], results |-> res]
    ELSE [some |-> FALSE, entry |-> << >>, results |-> res]

\* HistoryIndex taking index 0 for the first entry
HistoryIndexZeroFirst(idx, len) == IF idx = 0 THEN 0 ELSE idx - 1

\* history.rs 19: idx.checked_sub(1).unwrap_or(len.saturating_sub(1)),
\* the 0-based index of the entry
HistoryIndex(idx, len) ==
    IF idx = 0 THEN SaturatingSub(len, 1) ELSE idx - 1

\* history.rs 15-31: the handler of the history listing
HistoryRun(args) ==
    IF ~ParseArg(args.idx) \/ ~ParseArg(args.n)
    THEN RoOutcome("err", 0, << >>, << >>, results)
    ELSE LET idx    == HistoryIndex(args.idx, Len(results))
             n_show == IF args.n = 0 THEN U64Max ELSE args.n
             got    == HistoryGet(results, idx)
         IN IF ~got.some
            THEN RoOutcome("ok", 0, << >>, << >>, got.results)
            ELSE IF PrintResults(n_show, tgAlive) = "panic"
            THEN RoOutcome("panic", idx + 1, << >>, << >>, got.results)
            ELSE RoOutcome("ok", idx + 1, Take(got.entry, n_show), << >>,
                           got.results)

\* region.rs 12-37: the handler of the region lookup
RegionRun(args) ==
    IF ~ParseArg(args.addr) \/ ~tgAlive
    THEN RoOutcome("err", 0, << >>, << >>, results)
    ELSE LET region == RegionShown(tgMaps, args.addr)
         IN RoOutcome("ok", 0,
                      IF region = 0 THEN << >> ELSE << tgMaps[region] >>,
                      << >>, results)

\* maps.rs 7-18: the handler of the map listing
MapsRun ==
    IF ~tgAlive THEN RoOutcome("err", 0, << >>, << >>, results)
    ELSE RoOutcome("ok", 0, RwRegions(tgMaps), << >>, results)

\* diff.rs 10-37 as a listing command
DiffListing ==
    RoOutcome(DiffRun.status, 0, DiffRun.matches, << >>, results)

\* display.rs 18: DEFAULT_BYTES, scaled to the model's memory
DEFAULT_BYTES == 2

\* value.rs 72-85: Value::display
ValueDisplay(letter) == IF letter = "b" THEN 2 ELSE 4

\* value.rs 88-111: Value::from_le_bytes with its try_into().unwrap(),
\* which panics on a slice of another length than the type's
TryFromLeBytes(letter, bytes) ==
    IF Len(bytes) # ValueBytes(letter)
    THEN [panic |-> TRUE, val |-> 0]
    ELSE [panic |-> FALSE, val |-> FromLeBytes(bytes)]

\* remote.rs 61-84: remote::read gives Some only when every byte was read
RemoteRead(addr, len) ==
    IF ReadablePrefix(addr, len) = len
    THEN Some([k \in 1..len |-> addr + k - 1])
    ELSE None

\* print_value decoding whatever chunk it is given
PrintValueAlwaysDecoding(chunk, letter) ==
    LET value == TryFromLeBytes(letter, BufBytes(chunk))
    IN [kind |-> "value", panic |-> value.panic, val |-> value.val,
        width |-> ValueDisplay(letter), decoded |-> << Len(chunk) >>,
        valid |-> ~value.panic /\ RemoteRead(value.val, 1).some]

\* display.rs 90-110: print_value
PrintValue(chunk, letter) ==
    IF Len(chunk) = ValueBytes(letter)
    THEN LET value == TryFromLeBytes(letter, BufBytes(chunk))
         IN [kind |-> "value", panic |-> value.panic, val |-> value.val,
             width |-> ValueDisplay(letter), decoded |-> << Len(chunk) >>,
             valid |-> ~value.panic /\ RemoteRead(value.val, 1).some]
    ELSE [kind |-> "placeholder", panic |-> FALSE, val |-> 0,
          width |-> ValueDisplay(letter), decoded |-> << >>,
          valid |-> FALSE]

\* display.rs 20-87: the handler of the display commands; out holds what
\* print_value printed for each chunk of mem.chunks(bytes_per_value)
DisplayRun(args) ==
    LET value == ParseValue(Some(args.word))
    IN IF value.res = "panic"
       THEN RoOutcome("panic", 0, << >>, << >>, results)
       ELSE IF value.res = "err" \/ ~ParseArg(args.addr)
                \/ args.len = BadNum \/ args.len = 0
       THEN RoOutcome("err", 0, << >>, << >>, results)
       ELSE LET letter == args.word[2]
                len    == IF args.len = NoArg THEN DEFAULT_BYTES
                          ELSE args.len
                mem    == RemoteRead(args.addr, len)
            IN IF ~mem.some
               THEN RoOutcome("err", 0, << >>, << >>, results)
               ELSE LET chunks == SliceChunks(mem.buf, ValueBytes(letter))
                        items  == [i \in 1..Len(chunks) |->
                                     PrintValue(chunks[i], letter)]
                        dec    == Concat([i \in 1..Len(chunks) |->
                                            items[i].decoded])
                    IN IF \E i \in 1..Len(chunks) : items[i].panic
                       THEN RoOutcome("panic", 0, << >>, dec, results)
                       ELSE RoOutcome("ok", 0, items, dec, results)

\* The entries of the histories the listing commands are run on
RoEntries == { << 0 >>, << 1, 2 >>, << 0, 1, 2 >> }

\* Command lines of the history listing
HistoryArgs ==
    {[idx |-> i, n |-> n] :
        i \in {NoArg, BadNum} \cup 0..(MaxHistory + 1),
        n \in {NoArg, BadNum, 0, 1, 2}}

\* Command lines of the region lookup
RegionArgs == {[addr |-> a] : a \in {NoArg, BadNum} \cup 0..(ScMaxAddr + 1)}

\* Command lines of the display commands
DisplayArgs ==
    {[word |-> w, addr |-> a, len |-> l] :
        w \in {<< "d" >>, << "d", "b" >>, << "d", "w" >>},
        a \in {NoArg, BadNum} \cup ScAddrs,
        l \in {NoArg, BadNum} \cup 0..(ScMaxAddr + 1)}

\* What a listing command leaves in the scanner
RoFinish(kind, args, r) ==
    /\ ro' = [kind |-> kind, args |-> args, status |-> r.status,
              sel |-> r.sel, out |-> r.out, decoded |-> r.decoded]
    /\ results' = r.results

History ==
    /\ ro.kind = "none"
    /\ \E args \in HistoryArgs : RoFinish("history", args, HistoryRun(args))
    /\ UNCHANGED <<tgMaps, tgMem, tgBad, tgAlive, cmd, scTrace, prior, sb, an, os, rr, cl>>
    /\ UNCHANGED <<rvVars, ckVars, ptVars, fnVars>>

RegionLookup ==
    /\ ro.kind = "none"
    /\ \E args \in RegionArgs : RoFinish("region", args, RegionRun(args))
    /\ UNCHANGED <<tgMaps, tgMem, tgBad, tgAlive, cmd, scTrace, prior, sb, an, os, rr, cl>>
    /\ UNCHANGED <<rvVars, ckVars, ptVars, fnVars>>

MapsListing ==
    /\ ro.kind = "none"
    /\ RoFinish("maps", << >>, MapsRun)
    /\ UNCHANGED <<tgMaps, tgMem, tgBad, tgAlive, cmd, scTrace, prior, sb, an, os, rr, cl>>
    /\ UNCHANGED <<rvVars, ckVars, ptVars, fnVars>>

DiffCmd ==
    /\ ro.kind = "none"
    /\ RoFinish("diff", << >>, DiffListing)
    /\ UNCHANGED <<tgMaps, tgMem, tgBad, tgAlive, cmd, scTrace, prior, sb, an, os, rr, cl>>
    /\ UNCHANGED <<rvVars, ckVars, ptVars, fnVars>>

Display ==
    /\ ro.kind = "none"
    /\ cmd.kind = "none"
    /\ \E args \in DisplayArgs : RoFinish("display", args, DisplayRun(args))
    /\ UNCHANGED <<tgMaps, tgMem, tgBad, tgAlive, cmd, scTrace, prior, sb, an, os, rr, cl>>
    /\ UNCHANGED <<rvVars, ckVars, ptVars, fnVars>>

RoNext == History \/ RegionLookup \/ MapsListing \/ DiffCmd \/ Display

\* ------------------------------------------------------------------------
\* Anchor::score as sort_by_score calls it, one turn of its counting loop
\* at a time
\* ------------------------------------------------------------------------

\* The tokens of the patterns whose anchors are scored
ScoreTokens == {"00", "01", "??"}

\* pattern_scan.rs 153-208: the anchors are parsed; a list of one anchor
\* is sorted without a call of the comparator, a longer one has every
\* anchor scored
AnParse ==
    /\ an.pc = "idle"
    /\ LET parsed == ParseAnchors(ptTokens, 0, << >>, << >>, 0)
       IN IF ~parsed.ok \/ parsed.anchors = << >>
          THEN an' = [an EXCEPT !.pc = "done", !.out = "err"]
          ELSE IF Len(parsed.anchors) = 1
          THEN an' = [an EXCEPT !.pc = "done", !.out = "ok",
                                !.anchors = parsed.anchors]
          ELSE an' = [an EXCEPT !.pc = "sort", !.anchors = parsed.anchors]
    /\ UNCHANGED <<prior, sb, ro, os, rr, cl>>
    /\ UNCHANGED <<rvVars, ckVars, ptVars, scVars, fnVars>>

\* pattern_scan.rs 227-230, 96-101: the comparator calls score() on an
\* anchor; its counters start at zero
AnScore ==
    /\ an.pc = "sort"
    /\ \E k \in 1..Len(an.anchors) :
         /\ k \notin an.scored
         /\ an' = [an EXCEPT !.pc = "count", !.k = k, !.i = 0,
                             !.unique = 0,
                             !.counts = [b \in {0, 1} |-> 0]]
    /\ UNCHANGED <<prior, sb, ro, os, rr, cl>>
    /\ UNCHANGED <<rvVars, ckVars, ptVars, scVars, fnVars>>

\* pattern_scan.rs 103-107: one turn of the loop over the bytes;
\* checked_add(1).expect(..) panics when the counter is at its maximum
AnCount ==
    /\ an.pc = "count"
    /\ an.i < Len(an.anchors[an.k].bytes)
    /\ LET b == an.anchors[an.k].bytes[an.i + 1]
       IN IF an.counts[b] = CounterMax
          THEN an' = [an EXCEPT !.pc = "done", !.out = "panic",
                        !.unique = IF an.counts[b] = 0 THEN an.unique + 1
                                   ELSE an.unique]
          ELSE an' = [an EXCEPT !.i = an.i + 1,
                        !.counts[b] = an.counts[b] + 1,
                        !.unique = IF an.counts[b] = 0 THEN an.unique + 1
                                   ELSE an.unique]
    /\ UNCHANGED <<prior, sb, ro, os, rr, cl>>
    /\ UNCHANGED <<rvVars, ckVars, ptVars, scVars, fnVars>>

\* pattern_scan.rs 109-139: the loop has ended and the score is returned;
\* once every anchor has its score the sort ends and the pattern is Ok
AnScored ==
    /\ an.pc = "count"
    /\ an.i = Len(an.anchors[an.k].bytes)
    /\ LET scored == an.scored \cup {an.k}
       IN IF scored = 1..Len(an.anchors)
          THEN an' = [an EXCEPT !.pc = "done", !.out = "ok",
                                !.scored = scored]
          ELSE an' = [an EXCEPT !.pc = "sort", !.scored = scored]
    /\ UNCHANGED <<prior, sb, ro, os, rr, cl>>
    /\ UNCHANGED <<rvVars, ckVars, ptVars, scVars, fnVars>>

AnNext == AnParse \/ AnScore \/ AnCount \/ AnScored

\* ------------------------------------------------------------------------
\* One command that decodes values: full scan, rescan or display
\* ------------------------------------------------------------------------

DcScan == ro.kind = "none" /\ ScanCmd

DcRescan == ro.kind = "none" /\ RescanCmd

DcNext == DcScan \/ DcRescan \/ Display

\* ------------------------------------------------------------------------
\* read_vecs with an OS that may return any value
\* ------------------------------------------------------------------------

\* One vectored call that fails (-1) or returns any number of bytes up to
\* those still asked for, and the walk over the buffers that follows
OsCall ==
    /\ rv.pc = "loop"
    /\ \E just_read \in (0 - 1)..rv.to_read :
         /\ rv' = ReadVecsStep(rvRemote, rv, just_read)
         /\ os' = Append(os, just_read)
    /\ UNCHANGED <<rvRemote, rvPrefix>>
    /\ UNCHANGED <<prior, sb, ro, an, rr, cl>>
    /\ UNCHANGED <<ckVars, ptVars, scVars, fnVars>>

OsNext == OsCall \/ RvCollect

\* ------------------------------------------------------------------------
\* read_remote::remote_readv
\* ------------------------------------------------------------------------

\* usize, scaled (2^64 in the source)
USizeMod == 65536

\* `a -= b` on usize: the debug build panics when b > a, the release build
\* wraps
USizeSub(a, b, wrap) ==
    IF b <= a THEN a - b
    ELSE IF wrap THEN (a + USizeMod - b) % USizeMod
    ELSE 0 - 1

\* read_remote.rs 59-79: the locals before the first call
RemoteReadvInit(remote, wrap) ==
    [ pc          |-> "loop",
      wrap        |-> wrap,
      current_idx |-> 0,
      to_read     |-> SumLens(remote, 1),
      data        |-> [i \in 1..Len(remote) |-> << >>],
      vlen        |-> [i \in 1..Len(remote) |-> 0],
      failed      |-> {},              \* requests skipped so far (0-based)
      calls       |-> 0,
      starts      |-> << >>,
      out         |-> << >> ]

\* read_remote.rs 138: `current_idx = i + 1`, i being the index that
\* enumerate() counts from the start of backing_vecs[current_idx..]
SkipTo(current_idx, i) == i + 1

RECURSIVE RemoteReadvWalk(_, _, _, _)
\* read_remote.rs 111-140: walk the buffers backing_vecs[current_idx..]
\* after a call that returned just_read >= 0; i is the enumerate() index
RemoteReadvWalk(remote, st, just_read, i) ==
    IF st.current_idx + i >= Len(remote)
    THEN st                                   \* the for loop ran out
    ELSE
    LET cap == remote[st.current_idx + i + 1].len
        tr  == USizeSub(st.to_read, cap, st.wrap)
        set == [st.vlen EXCEPT ![st.current_idx + i + 1] = cap]
    IN IF tr < 0
       THEN [st EXCEPT !.pc = "panic"]
       ELSE IF tr = 0
       THEN [st EXCEPT !.to_read = tr, !.pc = "collect",
                       !.vlen = IF just_read = cap THEN set ELSE st.vlen]
       ELSE IF just_read >= cap
       THEN RemoteReadvWalk(remote,
                [st EXCEPT !.to_read = tr, !.vlen = set],
                just_read - cap, i + 1)
       ELSE [st EXCEPT !.to_read = tr,
                       !.failed = st.failed \cup {st.current_idx + i},
                       !.current_idx = SkipTo(st.current_idx, i)]

\* read_remote.rs 81-141: one iteration of the 'read loop (one vectored
\* call).  A call that is handed no request at all returns 0.
RemoteReadvIter(remote, prefix, st) ==
    LET from      == st.current_idx + 1
        just_read == IF st.current_idx >= Len(remote) THEN 0
                     ELSE process_vm_readv(remote, prefix, st.current_idx)
        called    == [st EXCEPT !.calls = st.calls + 1,
                                !.starts = Append(st.starts, st.current_idx)]
    IN IF just_read < 0
       THEN LET tr == USizeSub(st.to_read, remote[st.current_idx + 1].len,
                               st.wrap)
            IN IF tr < 0 THEN [called EXCEPT !.pc = "panic"]
               ELSE [called EXCEPT
                        !.to_read = tr,
                        !.failed = st.failed \cup {st.current_idx},
                        !.current_idx = st.current_idx + 1,
                        !.pc = IF st.current_idx + 1 = Len(remote)
                               THEN "collect" ELSE "loop"]
       ELSE RemoteReadvWalk(remote,
                [called EXCEPT !.data = [k \in 1..Len(remote) |->
                    IF k < from THEN st.data[k]
                    ELSE AddrBytes(remote[k].base,
                                   Filled(remote, from, just_read, k))]],
                just_read, 0)

\* read_remote.rs 143-146: drop the vectors whose length was never set
RemoteReadvCollect(remote, st) == ReadVecsCollect(remote, st)

\* One vectored call of remote_readv and the walk that follows; the run is
\* followed for at most MaxCalls calls
RrCall ==
    /\ rr.pc = "loop"
    /\ rr.calls < MaxCalls
    /\ rr' = RemoteReadvIter(rvRemote, rvPrefix, rr)
    /\ UNCHANGED <<prior, sb, ro, an, os, cl>>
    /\ UNCHANGED <<rvVars, ckVars, ptVars, scVars, fnVars>>

RrCollect ==
    /\ rr.pc = "collect"
    /\ rr' = RemoteReadvCollect(rvRemote, rr)
    /\ UNCHANGED <<prior, sb, ro, an, os, cl>>
    /\ UNCHANGED <<rvVars, ckVars, ptVars, scVars, fnVars>>

\* read_vecs runs on the same list next to it
RrNext == RrCall \/ RrCollect \/ RvCall \/ RvCollect

\* ------------------------------------------------------------------------
\* Cli::main_loop
\* ------------------------------------------------------------------------

\* str::to_lowercase on the characters of the model's words
ToLowercase(word) ==
    [k \in 1..Len(word) |->
        CASE word[k] = "F" -> "f"
          [] word[k] = "B" -> "b"
          [] word[k] = "W" -> "w"
          [] word[k] = "D" -> "d"
          [] word[k] = "Q" -> "q"
          [] OTHER         -> word[k]]

\* scan.rs 3-5: the names the full scan is registered under
ScanNames == {<< "s", c >> : c \in ValueLetters}

\* mod.rs 116-124 and cli.rs 84: self.commands.get(word); of the commands
\* the model's characters can spell, the full scan
CommandsGet(word) == IF word \in ScanNames THEN "scan" ELSE "unknown"

\* cli.rs 87 hands the handler &cmd_line[1..]; the handlers take the type
\* character from args[0] as the command word (scan.rs 17, utils.rs 19-23).
\* Both conventions are followed: from_word says that args begins at the
\* command word.
HandlerArgs(cmd_line, from_word) ==
    IF from_word THEN cmd_line ELSE Tail(cmd_line)

\* Vec::get(0)
Get0(args) == IF args = << >> THEN None ELSE Some(args[1])

\* The words of a typed line that follow the command word
ClArgWords == {<< "1" >>, << "s", "B" >>}

\* The lines typed, split at whitespace (no word is empty)
ClLines ==
    LET words == SeqsUpTo(WordChars, MaxWordLen) \ {<< >>}
    IN {<< >>} \cup {<< w >> : w \in words}
               \cup {<< w, a >> : w \in words, a \in ClArgWords}

\* cli.rs 72-91: one turn of the loop, up to the value the handler parses
MainLoopTurn ==
    /\ cl.pc = "idle"
    /\ LET cmd_line == [k \in 1..Len(cl.line) |-> ToLowercase(cl.line[k])]
           handler  == IF cmd_line = << >> THEN "none"
                       ELSE CommandsGet(cmd_line[1])
       IN cl' = [cl EXCEPT
                   !.pc = "done",
                   !.cmd_line = cmd_line,
                   !.handler = handler,
                   !.value = IF handler = "scan"
                             THEN ParseValue(Get0(HandlerArgs(cmd_line,
                                                      cl.from_word)))
                             ELSE cl.value]
    /\ UNCHANGED <<prior, sb, ro, an, os, rr>>
    /\ UNCHANGED <<rvVars, ckVars, ptVars, scVars, fnVars>>

ClNext == MainLoopTurn

\* ------------------------------------------------------------------------
\* Properties of the remote reader (RvSpec)
\* ------------------------------------------------------------------------

\* Request i is readable in full
RvReadable(i) == rvPrefix[i] = rvRemote[i].len

\* The result is aligned with the requests; slot i is None exactly when
\* request i is not readable in full, and otherwise holds the len bytes
\* of request i
RvExact ==
    /\ Len(rv.out) = Len(rvRemote)
    /\ \A i \in 1..Len(rvRemote) :
         /\ rv.out[i].some <=> RvReadable(i)
         /\ rv.out[i].some =>
              rv.out[i].buf = AddrBytes(rvRemote[i].base, rvRemote[i].len)

\* C1: for every non-empty request list and every pattern of unreadable
\* requests, read_vecs returns one slot per request, None exactly for the
\* requests that are not readable in full and the full buffer otherwise.
C1_ReadVecsExact == rv.pc = "returned" => RvExact

\* The same for the lists the OS accepts in one call (at most IOV_MAX
\* requests)
ReadVecsExactWithinIovMax ==
    (rv.pc = "returned" /\ Len(rvRemote) <= IOV_MAX) => RvExact

\* ------------------------------------------------------------------------
\* Properties of the batch planner (CkSpec)
\* ------------------------------------------------------------------------

RECURSIVE Flatten(_)
Flatten(batches) ==
    IF batches = << >> THEN << >>
    ELSE Head(batches) \o Flatten(Tail(batches))

\* The bytes of the catalog that lie in the range
ClippedBytes ==
    {a \in 0..MaxAddr :
        /\ ckRange.start <= a /\ a < ckRange.end
        /\ \E i \in 1..Len(ckMaps) : ckMaps[i].start <= a /\ a < ckMaps[i].end}

ReqBytes(req) == {a \in 0..(2 * MaxAddr) : req.base <= a /\ a < req.base + req.len}

CoveredBytes == UNION {ReqBytes(Flatten(ckBatches)[k]) :
                        k \in 1..Len(Flatten(ckBatches))}

\* C6: every batch handed to read_vecs holds at most IOV_MAX requests.
C6_BatchWithinIovMax ==
    \A b \in 1..Len(ckBatches) : Len(ckBatches[b]) <= IOV_MAX

\* C7: the requests of all batches, in order, cover exactly the regions
\* clipped to the range: ascending, no byte twice, no byte outside, and
\* no byte missing once the iterator is exhausted.
C7_ChunksCoverClipped ==
    LET flat == Flatten(ckBatches)
    IN /\ \A k \in 1..Len(flat) : flat[k].len > 0
       /\ \A k \in 1..(Len(flat) - 1) :
            flat[k].base + flat[k].len <= flat[k + 1].base
       /\ CoveredBytes \subseteq ClippedBytes
       /\ ckNone > 0 => CoveredBytes = ClippedBytes

\* A region was split over two batches and the plan is complete
C7_Witness ==
    /\ ckNone > 0
    /\ Len(ckBatches) >= 2
    /\ LET last == ckBatches[1][Len(ckBatches[1])]
       IN last.base + last.len = ckBatches[2][1].base
    /\ Len(ckMaps) >= 2
    /\ ClippedBytes # {}

\* C8: the request lengths of a batch sum to at most CHUNK_SIZE.
C8_BatchWithinChunkSize ==
    \A b \in 1..Len(ckBatches) : SumLens(ckBatches[b], 1) <= CHUNK_SIZE

\* A region larger than CHUNK_SIZE has been planned
C8_Witness ==
    /\ \E i \in 1..Len(ckMaps) :
         /\ ckMaps[i].end - ckMaps[i].start > CHUNK_SIZE
         /\ ckRange.start <= ckMaps[i].start
         /\ ckMaps[i].end <= ckRange.end
    /\ Len(ckBatches) >= 2
    /\ SumLens(ckBatches[1], 1) = CHUNK_SIZE

\* ------------------------------------------------------------------------
\* Properties of the pattern engine (PtSpec)
\* ------------------------------------------------------------------------

\* The pattern's known bytes all match the chunk at offset o
PatternMatchesAt(o) ==
    /\ o >= 0
    /\ \A k \in 1..Len(ptTokens) :
         ptTokens[k] \in HexTokens =>
            /\ o + k <= Len(ptMem)
            /\ ptMem[o + k] = HexByte(ptTokens[k])

Yielded == {ptIter.yielded[k] : k \in 1..Len(ptIter.yielded)}

\* C3: an occurrence whose other anchors (or logical start) would lie
\* outside the chunk is skipped; the iterator never faults and never
\* yields an offset outside the chunk.
C3_IteratorNeverFaults ==
    /\ ptIter.status # "panic"
    /\ \A o \in Yielded : 0 <= o /\ o < Len(ptMem)

\* C4: the anchor used for the substring search has the maximum score
\* among the anchors of the pattern.
C4_BestHasMaxScore ==
    ptPattern.state = "ok" =>
        \A k \in 1..Len(ptPattern.anchors) :
            Score(ptPattern.anchors[k]) <= Score(GetBest(ptPattern))

\* C5: once the iterator is exhausted, every offset at which all known
\* bytes of the pattern match inside the chunk has been yielded, also one
\* whose search anchor overlaps an earlier occurrence of the search anchor.
C5_EveryOccurrenceYielded ==
    ptIter.status = "done" =>
        {o \in 0..Len(ptMem) : PatternMatchesAt(o)} \subseteq Yielded

\* ------------------------------------------------------------------------
\* Properties of the scanner (Spec)
\* ------------------------------------------------------------------------

Elems(seq) == {seq[k] : k \in 1..Len(seq)}

\* A step of one of the four scanning commands
ScanCommand == Scan \/ Rescan \/ PatternScan \/ StringScan

\* C2: every address in the result of a rescan is an address of the
\* entry the rescan was run against, whatever the type and constraints.
C2_RescanSubset ==
    (cmd.kind = "rescan" /\ cmd.status = "ok") =>
        Elems(cmd.matches) \subseteq Elems(cmd.source)

\* A rescan kept some addresses of its entry and dropped others
C2_Witness ==
    /\ cmd.kind = "rescan"
    /\ cmd.status = "ok"
    /\ cmd.matches # << >>
    /\ Len(cmd.matches) < Len(cmd.source)
    /\ results = << cmd.matches >>

\* C9: every successful scan, rescan, pattern scan or string scan appends
\* exactly one MatchSet, its result, to the history, also an empty one.
C9_AppendsOneEntry ==
    [][(ScanCommand /\ cmd'.status = "ok") =>
          /\ Len(results') = Len(results) + 1
          /\ results'[Len(results')] = cmd'.matches]_vars

\* C10: a MatchSet once recorded stays at its index with its addresses.
C10_AppendOnly ==
    [][\A i \in 1..Len(results) :
          /\ i <= Len(results')
          /\ results'[i] = results[i]]_vars

\* ------------------------------------------------------------------------
\* Properties of diff (DfSpec)
\* ------------------------------------------------------------------------

RECURSIVE Ascending(_)
\* The elements of a set of addresses in ascending order
Ascending(S) ==
    IF S = {} THEN << >>
    ELSE LET m == CHOOSE x \in S : \A y \in S : x <= y
         IN << m >> \o Ascending(S \ {m})

\* The ascending, duplicate-free sequences of addresses
Entries == {Ascending(S) : S \in SUBSET ScAddrs}

\* The entry before the last (the older) and the last (the newer)
Older == results[Len(results) - 1]
Newer == results[Len(results)]

\* C11: when diff compares an older entry A with a newer entry B, both
\* ascending and duplicate-free, the vector it builds and prints holds
\* exactly the addresses of B that are not in A, each once, ascending;
\* addresses that are only in A are not in it.
C11_DiffIsAdditions ==
    (cmd.kind = "diff" /\ cmd.status # "noop") =>
        cmd.matches = Ascending(Elems(Newer) \ Elems(Older))

\* diff printed additions although the entries share an address and the
\* older one has an address the newer one lost
C11_Witness ==
    /\ cmd.kind = "diff"
    /\ cmd.status = "ok"
    /\ cmd.matches # << >>
    /\ Elems(Older) \cap Elems(Newer) # {}
    /\ Elems(Older) \ Elems(Newer) # {}

StrictlyAscending(seq) ==
    \A k \in 1..(Len(seq) - 1) : seq[k] < seq[k + 1]

\* The sequential scans leave their matches strictly ascending
SequentialScansAscending ==
    cmd.kind \in {"scan", "rescan", "pattern", "string"} =>
        StrictlyAscending(cmd.matches)

Satisfies(a, letter, constraints) ==
    /\ \A k \in 0..(ValueBytes(letter) - 1) : TargetReadable(a + k)
    /\ \A c \in 1..Len(constraints) :
          Check(constraints[c],
                FromLeBytes([k \in 1..ValueBytes(letter) |->
                                tgMem[a + k - 1]]))

\* C14: the result of a rescan is the set of the addresses of the entry
\* whose value is readable at the time of the rescan and satisfies every
\* constraint, for entries of any size (also larger than IOV_MAX).
C14_RescanExact ==
    (cmd.kind = "rescan" /\ cmd.status = "ok") =>
        Elems(cmd.matches) =
            {a \in Elems(cmd.source) :
                Satisfies(a, scTrace.args.word[2],
                          scTrace.args.constraints)}

\* The same for entries of at most IOV_MAX addresses
RescanExactWithinIovMax ==
    (cmd.kind = "rescan" /\ cmd.status = "ok"
        /\ Len(cmd.source) <= IOV_MAX) =>
        Elems(cmd.matches) =
            {a \in Elems(cmd.source) :
                Satisfies(a, scTrace.args.word[2],
                          scTrace.args.constraints)}

\* The command line has an argument missing or malformed: a number, the
\* type code, a constraint, a pattern token, the whole pattern (empty or
\* all wildcards) or the search text
Malformed(kind, args) ==
    CASE kind = "scan" ->
           \/ Len(args.word) < 2
           \/ args.start < 0 \/ args.end < 0
           \/ args.constraints = << >>
           \/ \E k \in 1..Len(args.constraints) :
                 args.constraints[k].op \notin {"eq", "ne"}
      [] kind = "rescan" ->
           \/ Len(args.word) < 2
           \/ args.constraints = << >>
           \/ \E k \in 1..Len(args.constraints) :
                 args.constraints[k].op \notin {"eq", "ne"}
      [] kind = "pattern" ->
           \/ args.start < 0 \/ args.end < 0
           \/ \E k \in 1..Len(args.tokens) :
                 args.tokens[k] \notin {"00", "01", "??"}
           \/ \A k \in 1..Len(args.tokens) : args.tokens[k] = "??"
      [] kind = "string" ->
           \/ args.start < 0 \/ args.end < 0
           \/ args.needle = << >>
      [] OTHER -> FALSE

\* C16: a scan, rescan, pattern scan or string scan whose arguments are
\* missing or malformed returns a failure message without reading the map
\* description and without a remote read, and leaves the history as it
\* was.
C16_BadArgsFailBeforeIO ==
    [][Malformed(cmd'.kind, scTrace'.args) =>
          /\ cmd'.status = "err"
          /\ scTrace'.maps_reads = 0
          /\ scTrace'.reqs = << >>
          /\ results' = results]_vars

\* A pattern scan was refused for a token that is no hexadecimal byte
\* while the target was running and the history held an entry
C16_Witness ==
    /\ Malformed(cmd.kind, scTrace.args)
    /\ cmd.kind = "pattern"
    /\ scTrace.args.tokens = << "01", "zz" >>
    /\ cmd.status = "err"
    /\ results # << >>
    /\ tgAlive

\* C17: when the map description cannot be read at some point of a
\* command, also when the results of a pattern or string scan are printed,
\* the command ends with a failure string (and the command loop goes on);
\* it does not end the process.
C17_MapsFailureIsAnError ==
    (cmd.kind \in {"scan", "rescan", "pattern", "string"}
        /\ scTrace.maps_failed) => cmd.status = "err"

\* The tokens of a pattern match the bytes of mem at offset o (0-based)
TokensMatchAt(tokens, mem, o) ==
    /\ o + Len(tokens) <= Len(mem)
    /\ \A k \in 1..Len(tokens) :
          tokens[k] = "??" \/ mem[o + k] = HexByte(tokens[k])

\* The bytes of the target at the addresses of a request
ReqMem(req) == [k \in 1..req.len |-> tgMem[req.base + k - 1]]

\* The addresses the command has to find in a request that was read
FoundIn(kind, args, req) ==
    CASE kind = "scan" ->
           LET bytes == ValueBytes(args.word[2])
           IN {req.base + o * bytes : o \in
                 {o \in 0..(req.len \div bytes) :
                    /\ (o + 1) * bytes <= req.len
                    /\ \A c \in 1..Len(args.constraints) :
                          Check(args.constraints[c],
                                FromLeBytes(SubSeq(ReqMem(req),
                                    o * bytes + 1, (o + 1) * bytes)))}}
      [] kind = "pattern" ->
           {req.base + o : o \in
              {o \in 0..req.len :
                 TokensMatchAt(args.tokens, ReqMem(req), o)}}
      [] kind = "string" ->
           {req.base + o : o \in
              {o \in 0..req.len : BytesAt(ReqMem(req), o, args.needle)}}

\* The requests of the command for which read_vecs returned Some
ReadReqs == {k \in 1..Len(scTrace.reqs) : scTrace.reqs[k].some}

\* C18: in a full scan, pattern scan or string scan a request for which
\* read_vecs returns None does not make the command fail and adds no
\* address; what is found in the other requests is still reported.
C18_UnreadableRequestsSkipped ==
    (cmd.kind \in {"scan", "pattern", "string"}
        /\ ReadReqs # 1..Len(scTrace.reqs)) =>
        /\ cmd.status = "ok"
        /\ Elems(cmd.matches) =
              UNION {FoundIn(cmd.kind, scTrace.args, scTrace.reqs[k]) :
                        k \in ReadReqs}

\* The same for the commands that did not end the process
UnreadableRequestsSkippedUnlessPanic ==
    (cmd.kind \in {"scan", "pattern", "string"}
        /\ ReadReqs # 1..Len(scTrace.reqs)
        /\ cmd.status # "panic") =>
        /\ cmd.status = "ok"
        /\ Elems(cmd.matches) =
              UNION {FoundIn(cmd.kind, scTrace.args, scTrace.reqs[k]) :
                        k \in ReadReqs}

\* The region is one a full scan may read: readable, writable, and no
\* kernel helper mapping
ScanMayRead(region) ==
    region.read /\ region.write /\ region.path # PathVdso

\* C20: every request of a full scan lies in a region that is readable,
\* writable and interesting; none lies in a [vdso] (or other excluded)
\* mapping.
C20_ScanReadsInterestingOnly ==
    cmd.kind = "scan" =>
        \A k \in 1..Len(scTrace.reqs) :
            \E m \in 1..Len(tgMaps) :
                /\ ScanMayRead(tgMaps[m])
                /\ tgMaps[m].start <= scTrace.reqs[k].base
                /\ scTrace.reqs[k].base + scTrace.reqs[k].len
                      <= tgMaps[m].end

\* ------------------------------------------------------------------------
\* Properties of the region lookup (LkSpec)
\* ------------------------------------------------------------------------

\* The regions of the catalog that hold the address: start <= addr < end
Holding(addr) ==
    {k \in 1..Len(ckMaps) :
        ckMaps[k].start <= addr /\ addr < ckMaps[k].end}

\* The answer of a linear scan over the catalog, 0 for none
LinearLookup(addr) ==
    IF Holding(addr) = {} THEN 0
    ELSE CHOOSE k \in Holding(addr) : \A j \in Holding(addr) : k <= j

\* C15: on an ascending, non-overlapping catalog the lookup of an address
\* (get_addr_region and the region command) returns the region with
\* start <= addr < end when there is one and nothing otherwise, as a linear
\* scan does; the end of a region is not inside it.
C15_LookupMatchesLinear ==
    lk.pc = "done" =>
        /\ lk.found = LinearLookup(lk.addr)
        /\ lk.shown = LinearLookup(lk.addr)

\* An address that is the end of one region and below the start of the
\* next was looked up in a catalog of three regions and not found
C15_Witness ==
    /\ lk.pc = "done"
    /\ Len(ckMaps) = 3
    /\ \E k \in 1..2 :
          /\ ckMaps[k].end = lk.addr
          /\ ckMaps[k + 1].start > lk.addr
    /\ lk.found = 0
    /\ lk.shown = 0

\* ------------------------------------------------------------------------
\* Properties of parse_value (VlSpec)
\* ------------------------------------------------------------------------

\* C19: the type character of a word (its second character) gives a zero
\* value of its own kind for each of f, F, b, w, d, q, B, W, D, Q; any
\* other character, like a missing one, gives a failure to the caller
\* and no fault.
C19_TypeLetterOrFailure ==
    /\ \A c, d \in ValueLetters :
          c # d => DefaultFromLetter(c).kind # DefaultFromLetter(d).kind
    /\ vl.pc = "done" =>
          IF vl.arg.some /\ Len(vl.arg.buf) >= 2
                /\ vl.arg.buf[2] \in ValueLetters
          THEN vl.out.res = "value" /\ vl.out.val = 0
          ELSE vl.out.res = "err"

\* The same without the words whose second character is no type character
TypeLetterOrMissing ==
    (vl.pc = "done"
        /\ ~(vl.arg.some /\ Len(vl.arg.buf) >= 2
                /\ vl.arg.buf[2] \notin ValueLetters)) =>
        IF vl.arg.some /\ Len(vl.arg.buf) >= 2
        THEN vl.out.res = "value" /\ vl.out.val = 0
        ELSE vl.out.res = "err"

\* ------------------------------------------------------------------------
\* Properties of the string scan's regions (CmSpec)
\* ------------------------------------------------------------------------

\* The needle occurs at address a inside region m of the target, which is
\* readable, not writable, interesting and read without refusal, and the
\* occurrence lies in the requested range
ReadOnlyOccurrence(m, a) ==
    LET region == tgMaps[m]
        needle == scTrace.args.needle
    IN /\ region.read /\ ~region.write /\ IsInteresting(region)
       /\ \A b \in region.start..(region.end - 1) : TargetReadable(b)
       /\ region.start <= a /\ a + Len(needle) <= region.end
       /\ scTrace.args.start <= a
       /\ a + Len(needle) <= EndOrMax(scTrace.args.end)
       /\ \A k \in 1..Len(needle) : tgMem[a + k - 1] = needle[k]

\* C21: the string scan searches read-only regions as well as read-write
\* ones: an occurrence of the needle inside a readable, non-writable,
\* interesting region in the requested range is reported.
C21_StringScanSearchesReadOnly ==
    (cmd.kind = "string" /\ cmd.status = "ok") =>
        \A m \in 1..Len(tgMaps), a \in ScAddrs :
            ReadOnlyOccurrence(m, a) => a \in Elems(cmd.matches)

\* What the string scan does report: the occurrences inside regions that
\* are writable as well
StringScanSearchesReadWrite ==
    (cmd.kind = "string" /\ cmd.status = "ok") =>
        \A k \in 1..Len(scTrace.reqs) :
            \E m \in 1..Len(tgMaps) :
                /\ tgMaps[m].read /\ tgMaps[m].write
                /\ tgMaps[m].start <= scTrace.reqs[k].base
                /\ scTrace.reqs[k].base + scTrace.reqs[k].len
                      <= tgMaps[m].end

\* ------------------------------------------------------------------------
\* Properties of the constraints of scan and rescan (CmSpec)
\* ------------------------------------------------------------------------

\* The value of byte width `bytes` the target holds at address a
ValueAt(a, bytes) == FromLeBytes([k \in 1..bytes |-> tgMem[a + k - 1]])

\* The addresses of the whole values inside a request
ValueAddrs(req, bytes) ==
    {req.base + o * bytes : o \in 0..((req.len \div bytes) - 1)}

\* C22: in a full scan and in a rescan an address is collected if and only
\* if every constraint of the command holds for the value decoded at that
\* address (logical AND); a command without any constraint is rejected
\* rather than matching every address.
C22_CollectedIffAllConstraintsHold ==
    cmd.kind \in {"scan", "rescan"} =>
        /\ cmd.status = "ok" =>
             LET bytes == ValueBytes(scTrace.args.word[2])
             IN /\ \A k \in ReadReqs :
                   \A a \in ValueAddrs(scTrace.reqs[k], bytes) :
                      (a \in Elems(cmd.matches)) <=>
                         \A c \in 1..Len(scTrace.args.constraints) :
                            Check(scTrace.args.constraints[c],
                                  ValueAt(a, bytes))
                /\ \A a \in Elems(cmd.matches) :
                      \E k \in ReadReqs :
                         a \in ValueAddrs(scTrace.reqs[k], bytes)
        /\ scTrace.args.constraints = << >> =>
             cmd.status = "err" /\ cmd.matches = << >>

\* A full scan with two constraints read a value for which one of them
\* holds and the other does not, and did not collect its address
C22_Witness ==
    /\ cmd.kind = "scan" /\ cmd.status = "ok"
    /\ Len(scTrace.args.constraints) = 2
    /\ \E k \in ReadReqs :
          LET bytes == ValueBytes(scTrace.args.word[2])
          IN \E a \in ValueAddrs(scTrace.reqs[k], bytes) :
                /\ Check(scTrace.args.constraints[1], ValueAt(a, bytes))
                /\ ~Check(scTrace.args.constraints[2], ValueAt(a, bytes))
                /\ a \notin Elems(cmd.matches)

\* ------------------------------------------------------------------------
\* Properties of the rescan with a delta constraint (DlSpec)
\* ------------------------------------------------------------------------

\* C23: a rescan with a delta-style constraint compares the value now read
\* at an address with the previous value at that address: "increased by
\* lit" holds exactly when the value is the previous value of the address
\* plus lit.
C23_DeltaUsesPreviousValue ==
    [][(DlRescan /\ cmd'.status = "ok") =>
          \A k \in 1..Len(scTrace'.reqs) :
              scTrace'.reqs[k].some =>
                  LET a == scTrace'.reqs[k].base
                  IN (a \in Elems(cmd'.matches)) <=>
                        tgMem[a] = prior[a]
                                    + scTrace'.args.constraints[1].lit]_vars

\* What the rescan does compare with: the one value the constraint holds
DeltaUsesConstraintValue ==
    [][(DlRescan /\ cmd'.status = "ok") =>
          \A k \in 1..Len(scTrace'.reqs) :
              scTrace'.reqs[k].some =>
                  LET a == scTrace'.reqs[k].base
                  IN (a \in Elems(cmd'.matches)) <=>
                        tgMem[a] = scTrace'.args.constraints[1].prev
                                    + scTrace'.args.constraints[1].lit]_vars

\* ------------------------------------------------------------------------
\* Properties of scan_batch (SbSpec)
\* ------------------------------------------------------------------------

\* How often x occurs in the sequence
Count(seq, x) == Cardinality({k \in 1..Len(seq) : seq[k] = x})

\* What scan_batch added to `matches`
SbAdded == SubSeq(sb.matches, Len(sb.before) + 1, Len(sb.matches))

\* What one thread scanning the chunks that were read, one after the
\* other, would add
SbSequential ==
    Concat([k \in 1..Len(sb.chunks) |->
              MatchesInBuffer(sb.chunks[k].iovec, sb.chunks[k].mem,
                              sb.bytes, sb.constraints)])

\* C24: under every interleaving of the workers of scan_batch the
\* addresses added to `matches` are, as a multiset, exactly those a
\* sequential evaluation of the same chunks would add: none is lost, none
\* is doubled, and what `matches` held before is kept.
C24_ScanBatchAddsSequentialMultiset ==
    sb.pc = "done" =>
        /\ Len(sb.matches) >= Len(sb.before)
        /\ SubSeq(sb.matches, 1, Len(sb.before)) = sb.before
        /\ \A a \in ScAddrs : Count(SbAdded, a) = Count(SbSequential, a)

\* Two workers found matches, the second appended first, and `matches`
\* was not empty before
C24_Witness ==
    /\ sb.pc = "done"
    /\ sb.before # << >>
    /\ Len(sb.workers) = 2
    /\ sb.workers[1].local_results # << >>
    /\ sb.workers[2].local_results # << >>
    /\ SbAdded = sb.workers[2].local_results \o sb.workers[1].local_results
    /\ SbAdded # SbSequential

\* ------------------------------------------------------------------------
\* Properties of the reads of the map description (CmSpec)
\* ------------------------------------------------------------------------

\* C25: within one command the map description of the target is read
\* once, and every step of the command uses that single reading.
C25_MapsReadOncePerCommand ==
    cmd.kind # "none" => scTrace.maps_reads <= 1

\* The commands that read it twice are the pattern scan and the string
\* scan that list their matches; no command reads it more than twice
MapsReadTwiceOnlyToList ==
    /\ scTrace.maps_reads <= 2
    /\ scTrace.maps_reads = 2 =>
          /\ cmd.kind \in {"pattern", "string"}
          /\ \/ cmd.status = "panic"
             \/ /\ cmd.matches # << >>
                /\ Len(cmd.matches) <= PrintMany

\* ------------------------------------------------------------------------
\* Properties of the listing commands (RoSpec)
\* ------------------------------------------------------------------------

\* The history listing was run with two numbers
HistoryParsed ==
    /\ ro.kind = "history"
    /\ ParseArg(ro.args.idx) /\ ParseArg(ro.args.n)

\* C26: in the history listing index 0 selects the most recent entry and
\* an index i >= 1 the i-th recorded entry; an index larger than the
\* number of entries, and index 0 on an empty history, shows nothing and
\* returns success, not an error.
C26_HistoryIndex ==
    HistoryParsed =>
        IF ro.args.idx > Len(results) \/ results = << >>
        THEN ro.status = "ok" /\ ro.sel = 0 /\ ro.out = << >>
        ELSE /\ ro.sel = IF ro.args.idx = 0 THEN Len(results)
                         ELSE ro.args.idx
             /\ ro.status = "ok" =>
                   /\ ro.out # << >>
                   /\ \A k \in 1..Len(ro.out) :
                         ro.out[k] = results[ro.sel][k]

\* Index 0 listed the last of three entries, which differs from the first
C26_Witness ==
    /\ HistoryParsed
    /\ ro.args.idx = 0
    /\ Len(results) = 3
    /\ results[3] # results[1]
    /\ ro.status = "ok"
    /\ ro.sel = 3
    /\ ro.out = results[3]

\* An index past the last entry listed nothing and returned success
HistoryIndexPastEnd ==
    /\ HistoryParsed
    /\ results # << >>
    /\ ro.args.idx = Len(results) + 1
    /\ ro.status = "ok" /\ ro.out = << >>

\* C27: the history, region, maps, diff and display commands are
\* read-only: for any arguments, and whether they succeed or fail, the
\* number of history entries and the addresses of every entry are the
\* same after the command as before it.
C27_ListingCommandsReadOnly ==
    [][(ro.kind = "none"
          /\ ro'.kind \in {"history", "region", "maps", "diff", "display"}) =>
          /\ Len(results') = Len(results)
          /\ \A k \in 1..Len(results) : results'[k] = results[k]]_vars

\* The history listing printed the second of three entries
C27_Witness ==
    /\ Len(results) = 3
    /\ ro.kind = "history" /\ ro.status = "ok" /\ ro.sel = 2
    /\ ro.out = results[2]

\* A display command failed on a history of three entries
ListingFailed ==
    /\ Len(results) = 3
    /\ ro.kind = "display" /\ ro.status = "err"

\* ------------------------------------------------------------------------
\* Properties of the counters of Anchor::score (AnSpec)
\* ------------------------------------------------------------------------

\* The anchor being scored holds one byte value more often than a counter
\* can count
ExcessiveRun ==
    /\ an.k # 0
    /\ \E b \in {0, 1} : ByteCount(an.anchors[an.k].bytes, b) > CounterMax

\* C28: scoring an anchor in which one byte value occurs more often than
\* the counter can hold makes the pattern scan fail with an error; the
\* counter never wraps around and the process is not aborted.
C28_CounterOverflowIsAnError ==
    /\ \A b \in {0, 1} : an.counts[b] <= CounterMax
    /\ an.pc = "count" =>
          \A b \in {0, 1} :
              an.counts[b] = ByteCount(SubSeq(an.anchors[an.k].bytes,
                                              1, an.i), b)
    /\ (an.pc = "done" /\ ExcessiveRun) => an.out = "err"

\* What the code does: the counter never wraps, and the scoring of such an
\* anchor panics
CounterOverflowPanics ==
    /\ \A b \in {0, 1} : an.counts[b] <= CounterMax
    /\ an.pc = "count" =>
          \A b \in {0, 1} :
              an.counts[b] = ByteCount(SubSeq(an.anchors[an.k].bytes,
                                              1, an.i), b)
    /\ (an.pc = "done" /\ ExcessiveRun) => an.out = "panic"
    /\ (an.pc = "done" /\ an.out = "panic") => ExcessiveRun

\* ------------------------------------------------------------------------
\* Properties of the decoding of values (DcSpec)
\* ------------------------------------------------------------------------

\* The number of bytes a display command that parsed was asked for
DisplayLen ==
    IF ro.args.len = NoArg THEN DEFAULT_BYTES ELSE ro.args.len

\* C29: decoding is applied only to chunks as long as the type is wide.
\* A full scan and a rescan never decode the trailing remainder of a
\* buffer (it yields no address), and display renders a shorter final
\* chunk as a placeholder of the type's display width instead of decoding
\* it, so that from_le_bytes is never reached with a chunk of another
\* length.
C29_DecodeOnlyWholeValues ==
    /\ (cmd.kind \in {"scan", "rescan"} /\ cmd.status = "ok") =>
          \A a \in Elems(cmd.matches) :
              \E k \in ReadReqs :
                  a \in ValueAddrs(scTrace.reqs[k],
                                   ValueBytes(scTrace.args.word[2]))
    /\ ro.kind = "display" =>
          /\ ro.status # "panic"
          /\ \A k \in 1..Len(ro.decoded) :
                ro.decoded[k] = ValueBytes(ro.args.word[2])
          /\ ro.status = "ok" =>
                LET bytes == ValueBytes(ro.args.word[2])
                IN /\ Len(ro.out) = (DisplayLen + bytes - 1) \div bytes
                   /\ Len(ro.decoded) = DisplayLen \div bytes
                   /\ \A k \in 1..Len(ro.out) :
                         IF k * bytes <= DisplayLen
                         THEN /\ ro.out[k].kind = "value"
                              /\ ro.out[k].val =
                                    ValueAt(ro.args.addr + (k - 1) * bytes,
                                            bytes)
                         ELSE /\ ro.out[k].kind = "placeholder"
                              /\ ro.out[k].width =
                                    ValueDisplay(ro.args.word[2])

\* Three bytes were displayed as 16-bit values: one value and one
\* placeholder of four characters
C29_Witness ==
    /\ ro.kind = "display" /\ ro.status = "ok"
    /\ ro.args.word = << "d", "w" >>
    /\ ro.args.len = 3
    /\ Len(ro.out) = 2
    /\ ro.out[1].kind = "value"
    /\ ro.out[2].kind = "placeholder" /\ ro.out[2].width = 4
    /\ ro.decoded = << 2 >>

\* A full scan for 16-bit values read a request of three bytes and found
\* the value at its start
ScanLeftRemainder ==
    /\ cmd.kind = "scan" /\ cmd.status = "ok"
    /\ scTrace.args.word = << "s", "w" >>
    /\ \E k \in ReadReqs :
          /\ scTrace.reqs[k].len = 3
          /\ scTrace.reqs[k].base \in Elems(cmd.matches)

\* ------------------------------------------------------------------------
\* Properties of the calls of read_vecs (OsSpec)
\* ------------------------------------------------------------------------

RECURSIVE Covered(_, _, _)
\* The number of requests, from request i on (1-based), that n bytes fill
\* completely
Covered(remote, i, n) ==
    IF i > Len(remote) \/ n < remote[i].len THEN 0
    ELSE 1 + Covered(remote, i + 1, n - remote[i].len)

\* The 0-based index of the first request still unresolved after call c:
\* the requests the call filled have succeeded and the one after them has
\* failed
Resume(c) ==
    Min(rv.starts[c] + Covered(rvRemote, rv.starts[c] + 1, os[c]) + 1,
        Len(rvRemote))

\* C30: every vectored call of read_vecs covers exactly the contiguous
\* suffix of the requests that are still unresolved: once a request has
\* succeeded or has been marked failed no later call of the invocation
\* includes it, whatever the OS returns (failure, zero, a partial or the
\* full byte count).
C30_CallsCoverUnresolvedSuffix ==
    /\ Len(rv.starts) = Len(os)
    /\ Len(rv.starts) >= 1 => rv.starts[1] = 0
    /\ \A c \in 1..Len(rv.starts) :
          IF c < Len(rv.starts)
          THEN /\ Resume(c) < Len(rvRemote)
               /\ rv.starts[c + 1] = Resume(c)
          ELSE /\ rv.current_idx = Resume(c)
               /\ (rv.pc = "loop") <=> (Resume(c) < Len(rvRemote))

\* read_vecs has returned after three calls, the first of which failed,
\* the second returned zero and the third a byte count
C30_Witness ==
    /\ rv.pc = "returned"
    /\ Len(os) = 3
    /\ os[1] < 0 /\ os[2] = 0 /\ os[3] > 0
    /\ rv.starts = << 0, 1, 2 >>

\* A call returned a partial count that filled one request and part of
\* the next, and the call after it began behind both
PartialCountSkipsTwo ==
    /\ Len(rvRemote) = 3
    /\ Len(os) = 2
    /\ os[1] > rvRemote[1].len
    /\ os[1] < rvRemote[1].len + rvRemote[2].len
    /\ rv.starts = << 0, 2 >>

\* ------------------------------------------------------------------------
\* Properties of the retry loop of read_vecs (RvSpec, OsSpec)
\* ------------------------------------------------------------------------

\* Number of requests read_vecs reported as failed (None)
RvFailed == Cardinality({i \in 1..Len(rv.out) : ~rv.out[i].some})

\* The calls issued are at most the failed requests plus one
CallsWithinFailedPlusOne ==
    rv.pc = "returned" => rv.calls <= RvFailed + 1

\* Every request of the list is readable in full
RvAllReadable == \A i \in 1..Len(rvRemote) : RvReadable(i)

\* C31: read_vecs ends with every request resolved, having issued at most
\* (number of requests it reports as failed) + 1 vectored calls; a list
\* whose requests are all readable is served by a single call.
C31_CallsBoundedByFailures ==
    rv.pc = "returned" =>
        /\ Len(rv.out) = Len(rvRemote)
        /\ rv.current_idx = Len(rvRemote)
        /\ rv.calls <= RvFailed + 1
        /\ RvAllReadable => rv.calls = 1

\* The same for the lists the OS accepts in one call
CallsBoundedWithinIovMax ==
    (rv.pc = "returned" /\ Len(rvRemote) <= IOV_MAX) =>
        /\ rv.calls <= RvFailed + 1
        /\ RvAllReadable => rv.calls = 1

\* The loop goes on only while a request is unresolved, and every turn
\* resolves at least one: it ends after at most Len(remote) calls
LoopResolvesARequest ==
    [][(rv.pc = "loop" /\ rv' # rv) =>
          /\ rv.current_idx < Len(rvRemote)
          /\ rv'.current_idx > rv.current_idx
          /\ rv'.current_idx <= Len(rvRemote)
          /\ rv'.calls = rv.calls + 1
          /\ rv'.pc = "loop" => rv'.current_idx < Len(rvRemote)]_vars

\* A list of more than IOV_MAX readable requests took two calls
AllReadableTookTwoCalls ==
    /\ rv.pc = "returned"
    /\ RvAllReadable
    /\ Len(rvRemote) = IOV_MAX + 1
    /\ rv.calls = 2

\* ------------------------------------------------------------------------
\* Properties of remote_readv (RrSpec)
\* ------------------------------------------------------------------------

\* C32: remote_readv follows the retry protocol of read_vecs: on every
\* request list and every pattern of unreadable requests the two return
\* the same result slot by slot, remote_readv never starts a call at a
\* request it has marked failed, and its count of bytes still to read
\* never goes below zero.
C32_RemoteReadvFollowsReadVecs ==
    /\ rr.pc # "panic"
    /\ rr.to_read <= SumLens(rvRemote, 1)
    /\ rr.pc = "loop" => rr.current_idx \notin rr.failed
    /\ (rr.pc = "returned" /\ rv.pc = "returned") => rr.out = rv.out

\* While no call has started after the first request the two agree
RemoteReadvAgreesFromStart ==
    (\A k \in 1..Len(rr.starts) : rr.starts[k] = 0) =>
        /\ rr.pc # "panic"
        /\ rr.to_read <= SumLens(rvRemote, 1)
        /\ (rr.pc = "returned" /\ rv.pc = "returned") => rr.out = rv.out

\* The debug build ended in the overflow panic of `to_read -= cap`
RemoteReadvPanicked == rr.pc = "panic" /\ ~rr.wrap

\* The release build is still calling after MaxCalls calls, its count
\* wrapped around
RemoteReadvKeepsCalling ==
    /\ rr.pc = "loop" /\ rr.wrap
    /\ rr.calls = MaxCalls
    /\ rr.to_read > SumLens(rvRemote, 1)

\* It returned a result that differs from the one of read_vecs
RemoteReadvDiffers ==
    /\ rr.pc = "returned" /\ rv.pc = "returned"
    /\ rr.out # rv.out

\* ------------------------------------------------------------------------
\* Properties of the offsets the pattern iterator yields (PtSpec)
\* ------------------------------------------------------------------------

\* Every anchor's bytes equal the chunk bytes at o + anchor.offset
AnchorsMatchAt(mem, o) ==
    \A k \in 1..Len(ptPattern.anchors) :
        BytesAt(mem, o + ptPattern.anchors[k].offset,
                ptPattern.anchors[k].bytes)

\* The chunk with the byte at index p (1-based) altered
Altered(mem, p) == [mem EXCEPT ![p] = 1 - mem[p]]

\* The offsets find_pattern_iter yields on a chunk
Offsets(mem) ==
    LET r == FindPatternAll(ptPattern, mem, 0, << >>)
    IN {r.offsets[k] : k \in 1..Len(r.offsets)}

\* The indexes (1-based) of the chunk at the known bytes, and at the
\* wildcards, of an occurrence at offset o
KnownAt(o) ==
    {o + k : k \in {j \in 1..Len(ptTokens) : ptTokens[j] \in HexTokens}}
WildAt(o) ==
    {o + k : k \in {j \in 1..Len(ptTokens) : ptTokens[j] = "??"}}
        \cap (1..Len(ptMem))

\* Every offset yielded is one at which all anchors match
YieldedOffsetsMatch == \A o \in Yielded : AnchorsMatchAt(ptMem, o)

\* Altering a known byte of a yielded occurrence removes its offset
KnownByteDecides ==
    ptIter.status = "done" =>
        \A o \in Yielded : \A p \in KnownAt(o) :
            o \notin Offsets(Altered(ptMem, p))

\* Altering a wildcard byte of a yielded occurrence keeps its offset
WildcardByteIgnored ==
    ptIter.status = "done" =>
        \A o \in Yielded : \A p \in WildAt(o) :
            o \in Offsets(Altered(ptMem, p))

\* C33: every offset o yielded by find_pattern_iter is one at which each
\* anchor's bytes equal the chunk bytes at o + anchor.offset; altering a
\* byte at a known position of an occurrence removes its offset from the
\* output, and the bytes at its wildcard positions do not influence it.
C33_YieldedOffsetsMatchAnchors ==
    /\ YieldedOffsetsMatch
    /\ KnownByteDecides
    /\ WildcardByteIgnored

\* The run on the altered chunk does not fault and the offset is lost all
\* the same
WildcardByteShadows ==
    /\ ptIter.status = "done"
    /\ \E o \in Yielded : \E p \in WildAt(o) :
          /\ ~FindPatternAll(ptPattern, Altered(ptMem, p), 0, << >>).panic
          /\ o \notin Offsets(Altered(ptMem, p))

\* ------------------------------------------------------------------------
\* Properties of the command loop (ClSpec)
\* ------------------------------------------------------------------------

\* The line typed begins with one of the ten names of the full scan
TypedScan ==
    /\ cl.pc = "done"
    /\ cl.line # << >>
    /\ cl.line[1] \in ScanNames

\* C34: a command typed in the command loop reaches its handler with the
\* case of its type character intact: each of the ten type characters
\* selects its own Value kind, an upper-case one another kind than the
\* same letter in lower case.
C34_TypeCharacterCaseKept ==
    TypedScan =>
        /\ cl.handler = "scan"
        /\ cl.value = DefaultFromLetter(cl.line[1][2])

\* A lower-case type character selects its kind when the handler's
\* arguments begin at the command word
LowerCaseKindSelected ==
    (TypedScan /\ cl.from_word
        /\ cl.line[1][2] \in {"f", "b", "w", "d", "q"}) =>
        /\ cl.handler = "scan"
        /\ cl.value = DefaultFromLetter(cl.line[1][2])

\* No typed line gives the handler a signed integer or the 64-bit float
UpperCaseKindsUnreachable ==
    cl.value.kind \notin {"I8", "I16", "I32", "I64", "F64"}

\* `sB` was typed and the handler scans for an unsigned byte
UpperCaseTypedLowerCaseSeen ==
    /\ TypedScan
    /\ cl.line[1] = << "s", "B" >>
    /\ cl.handler = "scan"
    /\ cl.value.kind = "U8"

\* ------------------------------------------------------------------------
\* Properties of the addresses a full scan reports (CmSpec)
\* ------------------------------------------------------------------------

\* A full scan (the handler, or scan_batch on one of its batches) returned
FullScanDone == cmd.kind \in {"scan", "scan_batch"} /\ cmd.status = "ok"

\* The width of the value type of the command
ScanWidth == ValueBytes(scTrace.args.word[2])

\* C35: every address a reported by a full scan of width w over the range
\* [start, end) has start <= a and a + w <= end, lies with its w bytes
\* inside one readable and writable region of the catalog, and differs
\* from the base of its request by a multiple of w.
C35_ScanAddressesInRangeAndAligned ==
    FullScanDone =>
        \A i \in 1..Len(cmd.matches) :
            LET a == cmd.matches[i]
                w == ScanWidth
            IN /\ scTrace.args.start <= a
               /\ a + w <= EndOrMax(scTrace.args.end)
               /\ \E m \in 1..Len(tgMaps) :
                     /\ tgMaps[m].read /\ tgMaps[m].write
                     /\ tgMaps[m].start <= a /\ a + w <= tgMaps[m].end
               /\ \E k \in 1..Len(scTrace.reqs) :
                     /\ scTrace.reqs[k].some
                     /\ scTrace.reqs[k].base <= a
                     /\ a + w <= scTrace.reqs[k].base + scTrace.reqs[k].len
                     /\ (a - scTrace.reqs[k].base) % w = 0

\* A scan for 2-byte values from address 1 on reported the odd address 1
\* inside the region [0, 3): the request was clipped to the range and the
\* values are aligned to its base
C35_Witness ==
    /\ cmd.kind = "scan" /\ cmd.status = "ok"
    /\ ScanWidth = 2
    /\ scTrace.args.start = 1
    /\ tgMaps = << Region(0, 3, TRUE, TRUE, PathNone) >>
    /\ cmd.matches = << 1 >>

\* ------------------------------------------------------------------------
\* Properties of the batches handed to read_vecs (CmSpec)
\* ------------------------------------------------------------------------

\* One of the four scanning commands got past its arguments and the map
\* description
ScanningDone ==
    /\ cmd.kind \in {"scan", "rescan", "pattern", "string"}
    /\ cmd.status \in {"ok", "panic"}
    /\ scTrace.args # << >>

\* The command had nothing to read: an empty catalog or a range with
\* start >= end for the three scans, no saved address for the rescan
NothingToRead ==
    IF cmd.kind = "rescan" THEN cmd.source = << >>
    ELSE \/ tgMaps = << >>
         \/ scTrace.args.start >= EndOrMax(scTrace.args.end)

\* C36: every batch handed to read_vecs by the full scan, the rescan, the
\* pattern scan and the string scan holds at least one request, so the
\* assertion at the top of read_vecs cannot fail; with an empty catalog,
\* an empty or inverted range, or no saved address there is no batch at
\* all.
C36_BatchesNeverEmpty ==
    /\ 0 \notin cmd.batches
    /\ ScanningDone =>
          /\ \A k \in 1..Len(scTrace.reqs) : scTrace.reqs[k].len > 0
          /\ NothingToRead => (cmd.batches = {} /\ scTrace.reqs = << >>)

\* A full scan over an inverted range of a target that has memory
\* returned without a batch
C36_Witness ==
    /\ cmd.kind = "scan" /\ cmd.status = "ok"
    /\ tgMaps = << Region(0, 3, TRUE, TRUE, PathNone) >>
    /\ scTrace.args.start = 2 /\ scTrace.args.end = 1
    /\ cmd.batches = {}
    /\ scTrace.maps_reads = 1

\* A rescan with no saved address returned without a batch
RescanOfNothing ==
    /\ cmd.kind = "rescan" /\ cmd.status = "ok"
    /\ cmd.source = << >>
    /\ cmd.batches = {}

\* ------------------------------------------------------------------------
\* Properties of the number and the size of the batches (CkSpec)
\* ------------------------------------------------------------------------

\* T: the bytes of the regions clipped to the range
ClippedTotal == Cardinality(ClippedBytes)

\* ceil(T / CHUNK_SIZE)
BatchesNeeded == (ClippedTotal + CHUNK_SIZE - 1) \div CHUNK_SIZE

\* C37: the batch sequence of Maps::chunks is finite: for clipped regions
\* of T bytes in all it yields exactly ceil(T / CHUNK_SIZE) batches, every
\* batch but the last totals exactly CHUNK_SIZE bytes, and once the
\* iterator has reported exhaustion it yields nothing more.
C37_BatchCountAndSizes ==
    /\ Len(ckBatches) <= BatchesNeeded
    /\ \A b \in 1..(Len(ckBatches) - 1) :
          SumLens(ckBatches[b], 1) = CHUNK_SIZE
    /\ ckRegions # << >> =>
          \A b \in 1..Len(ckBatches) : SumLens(ckBatches[b], 1) = CHUNK_SIZE
    /\ ckNone > 0 =>
          /\ Len(ckBatches) = BatchesNeeded
          /\ ckRegions = << >>

\* The iterator was asked again after it had reported exhaustion; it had
\* yielded a full batch and a shorter last one
C37_Witness ==
    /\ ckNone = 2
    /\ Len(ckBatches) = 2
    /\ SumLens(ckBatches[1], 1) = CHUNK_SIZE
    /\ SumLens(ckBatches[2], 1) < CHUNK_SIZE
    /\ Len(ckMaps) >= 2

\* ------------------------------------------------------------------------
\* Properties of the distance of the offsets yielded (PtSpec)
\* ------------------------------------------------------------------------

\* C38: the pattern scan reports non-overlapping occurrences: no two
\* offsets o1 < o2 yielded for one chunk have o2 < o1 + (number of tokens
\* of the pattern).
C38_OccurrencesDoNotOverlap ==
    \A o1, o2 \in Yielded :
        o1 < o2 => o2 >= o1 + Len(ptTokens)

\* Two occurrences of the search anchor that were yielded do not overlap
SearchAnchorsDoNotOverlap ==
    ptPattern.state = "ok" =>
        \A o1, o2 \in Yielded :
            o1 < o2 => o2 >= o1 + Len(GetBest(ptPattern).bytes)

\* The offsets are yielded in ascending order, none twice
YieldedAscending ==
    \A j, k \in 1..Len(ptIter.yielded) :
        j < k => ptIter.yielded[j] < ptIter.yielded[k]

\* Two overlapping occurrences were yielded and the iterator finished
OverlappingYielded ==
    /\ ptIter.status = "done"
    /\ \E o1, o2 \in Yielded : o1 < o2 /\ o2 < o1 + Len(ptTokens)

\* ------------------------------------------------------------------------
\* Initial states and specifications.  Each specification runs one
\* component; the variables of the others keep their idle values.
\* ------------------------------------------------------------------------

\* read_vecs called on any request list against any target
RvInit ==
    /\ \E n \in 1..MaxReqs : rvRemote \in [1..n -> Requests]
    /\ rvPrefix \in [1..Len(rvRemote) -> 0..MaxReqLen]
    /\ \A i \in 1..Len(rvRemote) : rvPrefix[i] <= rvRemote[i].len
    /\ rv = ReadVecsInit(rvRemote)
    /\ ckMaps = << >>
    /\ ckRange = [start |-> 0, end |-> 0]
    /\ ckRegions = << >>
    /\ ckBatches = << >>
    /\ ckNone = 0
    /\ ptTokens = << >>
    /\ ptMem = << >>
    /\ ptPattern = [state |-> "unparsed", anchors |-> << >>]
    /\ ptIter = [pos |-> 0, yielded |-> << >>, status |-> "idle"]
    /\ tgMaps = << >>
    /\ tgMem = << >>
    /\ tgBad = {}
    /\ results = << >>
    /\ cmd = Cmd("none", "ok", << >>, << >>)
    /\ tgAlive = TRUE
    /\ scTrace = [args |-> << >>, reqs |-> << >>, maps_reads |-> 0,
                  maps_failed |-> FALSE]
    /\ lk = [pc |-> "idle", addr |-> 0, found |-> 0, shown |-> 0]
    /\ vl = [pc |-> "idle", arg |-> << >>, out |-> "none"]
    /\ cl = [pc |-> "idle", line |-> << >>, from_word |-> TRUE, cmd_line |-> << >>, handler |-> "none", value |-> [res |-> "none", kind |-> "none", val |-> 0]]
    /\ rr = [pc |-> "idle", wrap |-> FALSE, current_idx |-> 0, to_read |-> 0, data |-> << >>, vlen |-> << >>, failed |-> {}, calls |-> 0, starts |-> << >>, out |-> << >>]
    /\ os = << >>
    /\ an = [pc |-> "idle", anchors |-> << >>, scored |-> {}, k |-> 0, i |-> 0, counts |-> [b \in {0, 1} |-> 0], unique |-> 0, out |-> "none"]
    /\ ro = [kind |-> "none", args |-> << >>, status |-> "ok", sel |-> 0, out |-> << >>, decoded |-> << >>]
    /\ sb = [pc |-> "idle", matches |-> << >>, before |-> << >>, bytes |-> 1, constraints |-> << >>, chunks |-> << >>, results |-> << >>, lock |-> 0, workers |-> << >>]
    /\ prior = [a \in ScAddrs |-> 0]

\* Maps::chunks called on any catalog and range
CkInit ==
    /\ \E n \in 0..MaxRegions : \E m \in Catalogs(n) :
          ckMaps = [i \in 1..n |->
                      Region(m[i][1], m[i][2], TRUE, TRUE, "none")]
    /\ ckRange \in [start : 0..MaxAddr, end : 0..MaxAddr]
    /\ ckRegions = ChunksClip(ckMaps, ckRange)
    /\ ckBatches = << >>
    /\ ckNone = 0
    /\ rvRemote = << >>
    /\ rvPrefix = << >>
    /\ rv = ReadVecsInit(<< >>)
    /\ ptTokens = << >>
    /\ ptMem = << >>
    /\ ptPattern = [state |-> "unparsed", anchors |-> << >>]
    /\ ptIter = [pos |-> 0, yielded |-> << >>, status |-> "idle"]
    /\ tgMaps = << >>
    /\ tgMem = << >>
    /\ tgBad = {}
    /\ results = << >>
    /\ cmd = Cmd("none", "ok", << >>, << >>)
    /\ tgAlive = TRUE
    /\ scTrace = [args |-> << >>, reqs |-> << >>, maps_reads |-> 0,
                  maps_failed |-> FALSE]
    /\ lk = [pc |-> "idle", addr |-> 0, found |-> 0, shown |-> 0]
    /\ vl = [pc |-> "idle", arg |-> << >>, out |-> "none"]
    /\ cl = [pc |-> "idle", line |-> << >>, from_word |-> TRUE, cmd_line |-> << >>, handler |-> "none", value |-> [res |-> "none", kind |-> "none", val |-> 0]]
    /\ rr = [pc |-> "idle", wrap |-> FALSE, current_idx |-> 0, to_read |-> 0, data |-> << >>, vlen |-> << >>, failed |-> {}, calls |-> 0, starts |-> << >>, out |-> << >>]
    /\ os = << >>
    /\ an = [pc |-> "idle", anchors |-> << >>, scored |-> {}, k |-> 0, i |-> 0, counts |-> [b \in {0, 1} |-> 0], unique |-> 0, out |-> "none"]
    /\ ro = [kind |-> "none", args |-> << >>, status |-> "ok", sel |-> 0, out |-> << >>, decoded |-> << >>]
    /\ sb = [pc |-> "idle", matches |-> << >>, before |-> << >>, bytes |-> 1, constraints |-> << >>, chunks |-> << >>, results |-> << >>, lock |-> 0, workers |-> << >>]
    /\ prior = [a \in ScAddrs |-> 0]

\* A pattern scan of one chunk, for any pattern and chunk
PtInit ==
    /\ ptTokens \in SeqsUpTo(PatTokens, MaxPatLen)
    /\ ptMem \in SeqsUpTo(MemBytes, MaxMemLen)
    /\ ptPattern = [state |-> "unparsed", anchors |-> << >>]
    /\ ptIter = [pos |-> 0, yielded |-> << >>, status |-> "idle"]
    /\ rvRemote = << >>
    /\ rvPrefix = << >>
    /\ rv = ReadVecsInit(<< >>)
    /\ ckMaps = << >>
    /\ ckRange = [start |-> 0, end |-> 0]
    /\ ckRegions = << >>
    /\ ckBatches = << >>
    /\ ckNone = 0
    /\ tgMaps = << >>
    /\ tgMem = << >>
    /\ tgBad = {}
    /\ results = << >>
    /\ cmd = Cmd("none", "ok", << >>, << >>)
    /\ tgAlive = TRUE
    /\ scTrace = [args |-> << >>, reqs |-> << >>, maps_reads |-> 0,
                  maps_failed |-> FALSE]
    /\ lk = [pc |-> "idle", addr |-> 0, found |-> 0, shown |-> 0]
    /\ vl = [pc |-> "idle", arg |-> << >>, out |-> "none"]
    /\ cl = [pc |-> "idle", line |-> << >>, from_word |-> TRUE, cmd_line |-> << >>, handler |-> "none", value |-> [res |-> "none", kind |-> "none", val |-> 0]]
    /\ rr = [pc |-> "idle", wrap |-> FALSE, current_idx |-> 0, to_read |-> 0, data |-> << >>, vlen |-> << >>, failed |-> {}, calls |-> 0, starts |-> << >>, out |-> << >>]
    /\ os = << >>
    /\ an = [pc |-> "idle", anchors |-> << >>, scored |-> {}, k |-> 0, i |-> 0, counts |-> [b \in {0, 1} |-> 0], unique |-> 0, out |-> "none"]
    /\ ro = [kind |-> "none", args |-> << >>, status |-> "ok", sel |-> 0, out |-> << >>, decoded |-> << >>]
    /\ sb = [pc |-> "idle", matches |-> << >>, before |-> << >>, bytes |-> 1, constraints |-> << >>, chunks |-> << >>, results |-> << >>, lock |-> 0, workers |-> << >>]
    /\ prior = [a \in ScAddrs |-> 0]

\* Scanner::new, with the target in any of its initial states
ScInit ==
    /\ tgMaps \in ScCatalogs
    /\ tgMem = [a \in ScAddrs |-> 0]
    /\ tgBad \in ScBadSets
    /\ results = << >>
    /\ cmd = Cmd("none", "ok", << >>, << >>)
    /\ tgAlive = TRUE
    /\ scTrace = [args |-> << >>, reqs |-> << >>, maps_reads |-> 0,
                  maps_failed |-> FALSE]
    /\ lk = [pc |-> "idle", addr |-> 0, found |-> 0, shown |-> 0]
    /\ vl = [pc |-> "idle", arg |-> << >>, out |-> "none"]
    /\ cl = [pc |-> "idle", line |-> << >>, from_word |-> TRUE, cmd_line |-> << >>, handler |-> "none", value |-> [res |-> "none", kind |-> "none", val |-> 0]]
    /\ rr = [pc |-> "idle", wrap |-> FALSE, current_idx |-> 0, to_read |-> 0, data |-> << >>, vlen |-> << >>, failed |-> {}, calls |-> 0, starts |-> << >>, out |-> << >>]
    /\ os = << >>
    /\ an = [pc |-> "idle", anchors |-> << >>, scored |-> {}, k |-> 0, i |-> 0, counts |-> [b \in {0, 1} |-> 0], unique |-> 0, out |-> "none"]
    /\ ro = [kind |-> "none", args |-> << >>, status |-> "ok", sel |-> 0, out |-> << >>, decoded |-> << >>]
    /\ sb = [pc |-> "idle", matches |-> << >>, before |-> << >>, bytes |-> 1, constraints |-> << >>, chunks |-> << >>, results |-> << >>, lock |-> 0, workers |-> << >>]
    /\ prior = [a \in ScAddrs |-> 0]
    /\ rvRemote = << >>
    /\ rvPrefix = << >>
    /\ rv = ReadVecsInit(<< >>)
    /\ ckMaps = << >>
    /\ ckRange = [start |-> 0, end |-> 0]
    /\ ckRegions = << >>
    /\ ckBatches = << >>
    /\ ckNone = 0
    /\ ptTokens = << >>
    /\ ptMem = << >>
    /\ ptPattern = [state |-> "unparsed", anchors |-> << >>]
    /\ ptIter = [pos |-> 0, yielded |-> << >>, status |-> "idle"]

\* diff run on any history of ascending, duplicate-free entries, the
\* target running or gone
DfInit ==
    /\ results \in SeqsUpTo(Entries, MaxHistory)
    /\ tgAlive \in BOOLEAN
    /\ tgMaps = << >>
    /\ tgMem = << >>
    /\ tgBad = {}
    /\ cmd = Cmd("none", "ok", << >>, << >>)
    /\ scTrace = [args |-> << >>, reqs |-> << >>, maps_reads |-> 0,
                  maps_failed |-> FALSE]
    /\ lk = [pc |-> "idle", addr |-> 0, found |-> 0, shown |-> 0]
    /\ vl = [pc |-> "idle", arg |-> << >>, out |-> "none"]
    /\ cl = [pc |-> "idle", line |-> << >>, from_word |-> TRUE, cmd_line |-> << >>, handler |-> "none", value |-> [res |-> "none", kind |-> "none", val |-> 0]]
    /\ rr = [pc |-> "idle", wrap |-> FALSE, current_idx |-> 0, to_read |-> 0, data |-> << >>, vlen |-> << >>, failed |-> {}, calls |-> 0, starts |-> << >>, out |-> << >>]
    /\ os = << >>
    /\ an = [pc |-> "idle", anchors |-> << >>, scored |-> {}, k |-> 0, i |-> 0, counts |-> [b \in {0, 1} |-> 0], unique |-> 0, out |-> "none"]
    /\ ro = [kind |-> "none", args |-> << >>, status |-> "ok", sel |-> 0, out |-> << >>, decoded |-> << >>]
    /\ sb = [pc |-> "idle", matches |-> << >>, before |-> << >>, bytes |-> 1, constraints |-> << >>, chunks |-> << >>, results |-> << >>, lock |-> 0, workers |-> << >>]
    /\ prior = [a \in ScAddrs |-> 0]
    /\ rvRemote = << >>
    /\ rvPrefix = << >>
    /\ rv = ReadVecsInit(<< >>)
    /\ ckMaps = << >>
    /\ ckRange = [start |-> 0, end |-> 0]
    /\ ckRegions = << >>
    /\ ckBatches = << >>
    /\ ckNone = 0
    /\ ptTokens = << >>
    /\ ptMem = << >>
    /\ ptPattern = [state |-> "unparsed", anchors |-> << >>]
    /\ ptIter = [pos |-> 0, yielded |-> << >>, status |-> "idle"]

DfNext == Diff

\* The scanner about to run a command: any target, running or gone, and
\* no entry or one entry in s.results
CmInit ==
    /\ tgMaps \in ScCatalogs
    /\ tgMem \in [ScAddrs -> MemBytes]
    /\ tgBad \in ScBadSets
    /\ tgAlive \in BOOLEAN
    /\ results \in {<< >>} \cup {<< e >> : e \in Entries \ {<< >>}}
    /\ cmd = Cmd("none", "ok", << >>, << >>)
    /\ scTrace = [args |-> << >>, reqs |-> << >>, maps_reads |-> 0,
                  maps_failed |-> FALSE]
    /\ lk = [pc |-> "idle", addr |-> 0, found |-> 0, shown |-> 0]
    /\ vl = [pc |-> "idle", arg |-> << >>, out |-> "none"]
    /\ cl = [pc |-> "idle", line |-> << >>, from_word |-> TRUE, cmd_line |-> << >>, handler |-> "none", value |-> [res |-> "none", kind |-> "none", val |-> 0]]
    /\ rr = [pc |-> "idle", wrap |-> FALSE, current_idx |-> 0, to_read |-> 0, data |-> << >>, vlen |-> << >>, failed |-> {}, calls |-> 0, starts |-> << >>, out |-> << >>]
    /\ os = << >>
    /\ an = [pc |-> "idle", anchors |-> << >>, scored |-> {}, k |-> 0, i |-> 0, counts |-> [b \in {0, 1} |-> 0], unique |-> 0, out |-> "none"]
    /\ ro = [kind |-> "none", args |-> << >>, status |-> "ok", sel |-> 0, out |-> << >>, decoded |-> << >>]
    /\ sb = [pc |-> "idle", matches |-> << >>, before |-> << >>, bytes |-> 1, constraints |-> << >>, chunks |-> << >>, results |-> << >>, lock |-> 0, workers |-> << >>]
    /\ prior = [a \in ScAddrs |-> 0]
    /\ rvRemote = << >>
    /\ rvPrefix = << >>
    /\ rv = ReadVecsInit(<< >>)
    /\ ckMaps = << >>
    /\ ckRange = [start |-> 0, end |-> 0]
    /\ ckRegions = << >>
    /\ ckBatches = << >>
    /\ ckNone = 0
    /\ ptTokens = << >>
    /\ ptMem = << >>
    /\ ptPattern = [state |-> "unparsed", anchors |-> << >>]
    /\ ptIter = [pos |-> 0, yielded |-> << >>, status |-> "idle"]

\* A lookup in any ascending, non-overlapping catalog
LkInit ==
    /\ \E n \in 0..MaxRegions : \E m \in Catalogs(n) :
          ckMaps = [i \in 1..n |->
                      Region(m[i][1], m[i][2], TRUE, TRUE, "none")]
    /\ lk = [pc |-> "idle", addr |-> 0, found |-> 0, shown |-> 0]
    /\ vl = [pc |-> "idle", arg |-> << >>, out |-> "none"]
    /\ cl = [pc |-> "idle", line |-> << >>, from_word |-> TRUE, cmd_line |-> << >>, handler |-> "none", value |-> [res |-> "none", kind |-> "none", val |-> 0]]
    /\ rr = [pc |-> "idle", wrap |-> FALSE, current_idx |-> 0, to_read |-> 0, data |-> << >>, vlen |-> << >>, failed |-> {}, calls |-> 0, starts |-> << >>, out |-> << >>]
    /\ os = << >>
    /\ an = [pc |-> "idle", anchors |-> << >>, scored |-> {}, k |-> 0, i |-> 0, counts |-> [b \in {0, 1} |-> 0], unique |-> 0, out |-> "none"]
    /\ ro = [kind |-> "none", args |-> << >>, status |-> "ok", sel |-> 0, out |-> << >>, decoded |-> << >>]
    /\ sb = [pc |-> "idle", matches |-> << >>, before |-> << >>, bytes |-> 1, constraints |-> << >>, chunks |-> << >>, results |-> << >>, lock |-> 0, workers |-> << >>]
    /\ prior = [a \in ScAddrs |-> 0]
    /\ ckRange = [start |-> 0, end |-> 0]
    /\ ckRegions = << >>
    /\ ckBatches = << >>
    /\ ckNone = 0
    /\ rvRemote = << >>
    /\ rvPrefix = << >>
    /\ rv = ReadVecsInit(<< >>)
    /\ ptTokens = << >>
    /\ ptMem = << >>
    /\ ptPattern = [state |-> "unparsed", anchors |-> << >>]
    /\ ptIter = [pos |-> 0, yielded |-> << >>, status |-> "idle"]
    /\ tgMaps = << >>
    /\ tgMem = << >>
    /\ tgBad = {}
    /\ tgAlive = TRUE
    /\ results = << >>
    /\ cmd = Cmd("none", "ok", << >>, << >>)
    /\ scTrace = [args |-> << >>, reqs |-> << >>, maps_reads |-> 0,
                  maps_failed |-> FALSE]

\* parse_value about to be called on any argument
VlInit ==
    /\ \E arg \in ValueArgs : vl = [pc |-> "idle", arg |-> arg, out |-> "none"]
    /\ cl = [pc |-> "idle", line |-> << >>, from_word |-> TRUE, cmd_line |-> << >>, handler |-> "none", value |-> [res |-> "none", kind |-> "none", val |-> 0]]
    /\ rr = [pc |-> "idle", wrap |-> FALSE, current_idx |-> 0, to_read |-> 0, data |-> << >>, vlen |-> << >>, failed |-> {}, calls |-> 0, starts |-> << >>, out |-> << >>]
    /\ os = << >>
    /\ an = [pc |-> "idle", anchors |-> << >>, scored |-> {}, k |-> 0, i |-> 0, counts |-> [b \in {0, 1} |-> 0], unique |-> 0, out |-> "none"]
    /\ ro = [kind |-> "none", args |-> << >>, status |-> "ok", sel |-> 0, out |-> << >>, decoded |-> << >>]
    /\ sb = [pc |-> "idle", matches |-> << >>, before |-> << >>, bytes |-> 1, constraints |-> << >>, chunks |-> << >>, results |-> << >>, lock |-> 0, workers |-> << >>]
    /\ prior = [a \in ScAddrs |-> 0]
    /\ lk = [pc |-> "idle", addr |-> 0, found |-> 0, shown |-> 0]
    /\ ckMaps = << >>
    /\ ckRange = [start |-> 0, end |-> 0]
    /\ ckRegions = << >>
    /\ ckBatches = << >>
    /\ ckNone = 0
    /\ rvRemote = << >>
    /\ rvPrefix = << >>
    /\ rv = ReadVecsInit(<< >>)
    /\ ptTokens = << >>
    /\ ptMem = << >>
    /\ ptPattern = [state |-> "unparsed", anchors |-> << >>]
    /\ ptIter = [pos |-> 0, yielded |-> << >>, status |-> "idle"]
    /\ tgMaps = << >>
    /\ tgMem = << >>
    /\ tgBad = {}
    /\ tgAlive = TRUE
    /\ results = << >>
    /\ cmd = Cmd("none", "ok", << >>, << >>)
    /\ scTrace = [args |-> << >>, reqs |-> << >>, maps_reads |-> 0,
                  maps_failed |-> FALSE]

\* A scanner with an empty history on a target of one readable and
\* writable region, holding any bytes
DlInit ==
    /\ tgMaps = << Region(0, ScMaxAddr + 1, TRUE, TRUE, PathNone) >>
    /\ tgMem \in [ScAddrs -> MemBytes]
    /\ tgBad \in ScBadSets
    /\ results = << >>
    /\ cmd = Cmd("none", "ok", << >>, << >>)
    /\ tgAlive = TRUE
    /\ scTrace = [args |-> << >>, reqs |-> << >>, maps_reads |-> 0,
                  maps_failed |-> FALSE]
    /\ lk = [pc |-> "idle", addr |-> 0, found |-> 0, shown |-> 0]
    /\ vl = [pc |-> "idle", arg |-> << >>, out |-> "none"]
    /\ cl = [pc |-> "idle", line |-> << >>, from_word |-> TRUE, cmd_line |-> << >>, handler |-> "none", value |-> [res |-> "none", kind |-> "none", val |-> 0]]
    /\ rr = [pc |-> "idle", wrap |-> FALSE, current_idx |-> 0, to_read |-> 0, data |-> << >>, vlen |-> << >>, failed |-> {}, calls |-> 0, starts |-> << >>, out |-> << >>]
    /\ os = << >>
    /\ an = [pc |-> "idle", anchors |-> << >>, scored |-> {}, k |-> 0, i |-> 0, counts |-> [b \in {0, 1} |-> 0], unique |-> 0, out |-> "none"]
    /\ ro = [kind |-> "none", args |-> << >>, status |-> "ok", sel |-> 0, out |-> << >>, decoded |-> << >>]
    /\ sb = [pc |-> "idle", matches |-> << >>, before |-> << >>, bytes |-> 1, constraints |-> << >>, chunks |-> << >>, results |-> << >>, lock |-> 0, workers |-> << >>]
    /\ prior = [a \in ScAddrs |-> 0]
    /\ rvRemote = << >>
    /\ rvPrefix = << >>
    /\ rv = ReadVecsInit(<< >>)
    /\ ckMaps = << >>
    /\ ckRange = [start |-> 0, end |-> 0]
    /\ ckRegions = << >>
    /\ ckBatches = << >>
    /\ ckNone = 0
    /\ ptTokens = << >>
    /\ ptMem = << >>
    /\ ptPattern = [state |-> "unparsed", anchors |-> << >>]
    /\ ptIter = [pos |-> 0, yielded |-> << >>, status |-> "idle"]

\* scan_batch about to be called on any running target
SbInit ==
    /\ tgMaps \in ScCatalogs
    /\ tgMem \in [ScAddrs -> MemBytes]
    /\ tgBad \in ScBadSets
    /\ results = << >>
    /\ cmd = Cmd("none", "ok", << >>, << >>)
    /\ tgAlive = TRUE
    /\ scTrace = [args |-> << >>, reqs |-> << >>, maps_reads |-> 0,
                  maps_failed |-> FALSE]
    /\ lk = [pc |-> "idle", addr |-> 0, found |-> 0, shown |-> 0]
    /\ vl = [pc |-> "idle", arg |-> << >>, out |-> "none"]
    /\ cl = [pc |-> "idle", line |-> << >>, from_word |-> TRUE, cmd_line |-> << >>, handler |-> "none", value |-> [res |-> "none", kind |-> "none", val |-> 0]]
    /\ rr = [pc |-> "idle", wrap |-> FALSE, current_idx |-> 0, to_read |-> 0, data |-> << >>, vlen |-> << >>, failed |-> {}, calls |-> 0, starts |-> << >>, out |-> << >>]
    /\ os = << >>
    /\ an = [pc |-> "idle", anchors |-> << >>, scored |-> {}, k |-> 0, i |-> 0, counts |-> [b \in {0, 1} |-> 0], unique |-> 0, out |-> "none"]
    /\ ro = [kind |-> "none", args |-> << >>, status |-> "ok", sel |-> 0, out |-> << >>, decoded |-> << >>]
    /\ sb = [pc |-> "idle", matches |-> << >>, before |-> << >>, bytes |-> 1, constraints |-> << >>, chunks |-> << >>, results |-> << >>, lock |-> 0, workers |-> << >>]
    /\ prior = [a \in ScAddrs |-> 0]
    /\ rvRemote = << >>
    /\ rvPrefix = << >>
    /\ rv = ReadVecsInit(<< >>)
    /\ ckMaps = << >>
    /\ ckRange = [start |-> 0, end |-> 0]
    /\ ckRegions = << >>
    /\ ckBatches = << >>
    /\ ckNone = 0
    /\ ptTokens = << >>
    /\ ptMem = << >>
    /\ ptPattern = [state |-> "unparsed", anchors |-> << >>]
    /\ ptIter = [pos |-> 0, yielded |-> << >>, status |-> "idle"]

\* A listing command run on any history of up to MaxHistory entries, the
\* target running or gone
RoInit ==
    /\ tgMaps \in ScCatalogs
    /\ tgMem = [a \in ScAddrs |-> 0]
    /\ tgBad \in ScBadSets
    /\ results \in SeqsUpTo(RoEntries, MaxHistory)
    /\ cmd = Cmd("none", "ok", << >>, << >>)
    /\ tgAlive \in BOOLEAN
    /\ scTrace = [args |-> << >>, reqs |-> << >>, maps_reads |-> 0,
                  maps_failed |-> FALSE]
    /\ lk = [pc |-> "idle", addr |-> 0, found |-> 0, shown |-> 0]
    /\ vl = [pc |-> "idle", arg |-> << >>, out |-> "none"]
    /\ cl = [pc |-> "idle", line |-> << >>, from_word |-> TRUE, cmd_line |-> << >>, handler |-> "none", value |-> [res |-> "none", kind |-> "none", val |-> 0]]
    /\ rr = [pc |-> "idle", wrap |-> FALSE, current_idx |-> 0, to_read |-> 0, data |-> << >>, vlen |-> << >>, failed |-> {}, calls |-> 0, starts |-> << >>, out |-> << >>]
    /\ os = << >>
    /\ an = [pc |-> "idle", anchors |-> << >>, scored |-> {}, k |-> 0, i |-> 0, counts |-> [b \in {0, 1} |-> 0], unique |-> 0, out |-> "none"]
    /\ ro = [kind |-> "none", args |-> << >>, status |-> "ok", sel |-> 0, out |-> << >>, decoded |-> << >>]
    /\ sb = [pc |-> "idle", matches |-> << >>, before |-> << >>, bytes |-> 1, constraints |-> << >>, chunks |-> << >>, results |-> << >>, lock |-> 0, workers |-> << >>]
    /\ prior = [a \in ScAddrs |-> 0]
    /\ rvRemote = << >>
    /\ rvPrefix = << >>
    /\ rv = ReadVecsInit(<< >>)
    /\ ckMaps = << >>
    /\ ckRange = [start |-> 0, end |-> 0]
    /\ ckRegions = << >>
    /\ ckBatches = << >>
    /\ ckNone = 0
    /\ ptTokens = << >>
    /\ ptMem = << >>
    /\ ptPattern = [state |-> "unparsed", anchors |-> << >>]
    /\ ptIter = [pos |-> 0, yielded |-> << >>, status |-> "idle"]

\* parse_scored_anchors called on any pattern of up to MaxScoreLen tokens
AnInit ==
    /\ ptTokens \in SeqsUpTo(ScoreTokens, MaxScoreLen)
    /\ ptMem = << >>
    /\ ptPattern = [state |-> "unparsed", anchors |-> << >>]
    /\ ptIter = [pos |-> 0, yielded |-> << >>, status |-> "idle"]
    /\ rvRemote = << >>
    /\ rvPrefix = << >>
    /\ rv = ReadVecsInit(<< >>)
    /\ ckMaps = << >>
    /\ ckRange = [start |-> 0, end |-> 0]
    /\ ckRegions = << >>
    /\ ckBatches = << >>
    /\ ckNone = 0
    /\ tgMaps = << >>
    /\ tgMem = << >>
    /\ tgBad = {}
    /\ results = << >>
    /\ cmd = Cmd("none", "ok", << >>, << >>)
    /\ tgAlive = TRUE
    /\ scTrace = [args |-> << >>, reqs |-> << >>, maps_reads |-> 0,
                  maps_failed |-> FALSE]
    /\ lk = [pc |-> "idle", addr |-> 0, found |-> 0, shown |-> 0]
    /\ vl = [pc |-> "idle", arg |-> << >>, out |-> "none"]
    /\ cl = [pc |-> "idle", line |-> << >>, from_word |-> TRUE, cmd_line |-> << >>, handler |-> "none", value |-> [res |-> "none", kind |-> "none", val |-> 0]]
    /\ rr = [pc |-> "idle", wrap |-> FALSE, current_idx |-> 0, to_read |-> 0, data |-> << >>, vlen |-> << >>, failed |-> {}, calls |-> 0, starts |-> << >>, out |-> << >>]
    /\ os = << >>
    /\ an = [pc |-> "idle", anchors |-> << >>, scored |-> {}, k |-> 0, i |-> 0, counts |-> [b \in {0, 1} |-> 0], unique |-> 0, out |-> "none"]
    /\ ro = [kind |-> "none", args |-> << >>, status |-> "ok", sel |-> 0, out |-> << >>, decoded |-> << >>]
    /\ sb = [pc |-> "idle", matches |-> << >>, before |-> << >>, bytes |-> 1, constraints |-> << >>, chunks |-> << >>, results |-> << >>, lock |-> 0, workers |-> << >>]
    /\ prior = [a \in ScAddrs |-> 0]

\* The scanner about to run a command that decodes values: any target,
\* running or gone, and no entry or one entry in s.results
DcInit ==
    /\ tgMaps \in ScCatalogs
    /\ tgMem \in [ScAddrs -> MemBytes]
    /\ tgBad \in ScBadSets
    /\ tgAlive \in BOOLEAN
    /\ results \in {<< >>} \cup {<< e >> : e \in Entries \ {<< >>}}
    /\ cmd = Cmd("none", "ok", << >>, << >>)
    /\ scTrace = [args |-> << >>, reqs |-> << >>, maps_reads |-> 0,
                  maps_failed |-> FALSE]
    /\ lk = [pc |-> "idle", addr |-> 0, found |-> 0, shown |-> 0]
    /\ vl = [pc |-> "idle", arg |-> << >>, out |-> "none"]
    /\ cl = [pc |-> "idle", line |-> << >>, from_word |-> TRUE, cmd_line |-> << >>, handler |-> "none", value |-> [res |-> "none", kind |-> "none", val |-> 0]]
    /\ rr = [pc |-> "idle", wrap |-> FALSE, current_idx |-> 0, to_read |-> 0, data |-> << >>, vlen |-> << >>, failed |-> {}, calls |-> 0, starts |-> << >>, out |-> << >>]
    /\ os = << >>
    /\ an = [pc |-> "idle", anchors |-> << >>, scored |-> {}, k |-> 0, i |-> 0, counts |-> [b \in {0, 1} |-> 0], unique |-> 0, out |-> "none"]
    /\ ro = [kind |-> "none", args |-> << >>, status |-> "ok", sel |-> 0, out |-> << >>, decoded |-> << >>]
    /\ sb = [pc |-> "idle", matches |-> << >>, before |-> << >>, bytes |-> 1, constraints |-> << >>, chunks |-> << >>, results |-> << >>, lock |-> 0, workers |-> << >>]
    /\ prior = [a \in ScAddrs |-> 0]
    /\ rvRemote = << >>
    /\ rvPrefix = << >>
    /\ rv = ReadVecsInit(<< >>)
    /\ ckMaps = << >>
    /\ ckRange = [start |-> 0, end |-> 0]
    /\ ckRegions = << >>
    /\ ckBatches = << >>
    /\ ckNone = 0
    /\ ptTokens = << >>
    /\ ptMem = << >>
    /\ ptPattern = [state |-> "unparsed", anchors |-> << >>]
    /\ ptIter = [pos |-> 0, yielded |-> << >>, status |-> "idle"]

\* read_vecs called on any request list, the OS returning whatever it
\* may
OsInit ==
    /\ \E n \in 1..MaxReqs : rvRemote \in [1..n -> Requests]
    /\ rvPrefix = [i \in 1..Len(rvRemote) |-> 0]
    /\ rv = ReadVecsInit(rvRemote)
    /\ ckMaps = << >>
    /\ ckRange = [start |-> 0, end |-> 0]
    /\ ckRegions = << >>
    /\ ckBatches = << >>
    /\ ckNone = 0
    /\ ptTokens = << >>
    /\ ptMem = << >>
    /\ ptPattern = [state |-> "unparsed", anchors |-> << >>]
    /\ ptIter = [pos |-> 0, yielded |-> << >>, status |-> "idle"]
    /\ tgMaps = << >>
    /\ tgMem = << >>
    /\ tgBad = {}
    /\ results = << >>
    /\ cmd = Cmd("none", "ok", << >>, << >>)
    /\ tgAlive = TRUE
    /\ scTrace = [args |-> << >>, reqs |-> << >>, maps_reads |-> 0,
                  maps_failed |-> FALSE]
    /\ lk = [pc |-> "idle", addr |-> 0, found |-> 0, shown |-> 0]
    /\ vl = [pc |-> "idle", arg |-> << >>, out |-> "none"]
    /\ cl = [pc |-> "idle", line |-> << >>, from_word |-> TRUE, cmd_line |-> << >>, handler |-> "none", value |-> [res |-> "none", kind |-> "none", val |-> 0]]
    /\ rr = [pc |-> "idle", wrap |-> FALSE, current_idx |-> 0, to_read |-> 0, data |-> << >>, vlen |-> << >>, failed |-> {}, calls |-> 0, starts |-> << >>, out |-> << >>]
    /\ os = << >>
    /\ an = [pc |-> "idle", anchors |-> << >>, scored |-> {}, k |-> 0, i |-> 0, counts |-> [b \in {0, 1} |-> 0], unique |-> 0, out |-> "none"]
    /\ ro = [kind |-> "none", args |-> << >>, status |-> "ok", sel |-> 0, out |-> << >>, decoded |-> << >>]
    /\ sb = [pc |-> "idle", matches |-> << >>, before |-> << >>, bytes |-> 1, constraints |-> << >>, chunks |-> << >>, results |-> << >>, lock |-> 0, workers |-> << >>]
    /\ prior = [a \in ScAddrs |-> 0]

\* remote_readv and read_vecs called on the same request list, in a debug
\* build (overflow panics) or a release build (overflow wraps)
RrInit ==
    /\ \E n \in 1..MaxReqs : rvRemote \in [1..n -> Requests]
    /\ rvPrefix \in [1..Len(rvRemote) -> 0..MaxReqLen]
    /\ \A i \in 1..Len(rvRemote) : rvPrefix[i] <= rvRemote[i].len
    /\ rv = ReadVecsInit(rvRemote)
    /\ ckMaps = << >>
    /\ ckRange = [start |-> 0, end |-> 0]
    /\ ckRegions = << >>
    /\ ckBatches = << >>
    /\ ckNone = 0
    /\ ptTokens = << >>
    /\ ptMem = << >>
    /\ ptPattern = [state |-> "unparsed", anchors |-> << >>]
    /\ ptIter = [pos |-> 0, yielded |-> << >>, status |-> "idle"]
    /\ tgMaps = << >>
    /\ tgMem = << >>
    /\ tgBad = {}
    /\ results = << >>
    /\ cmd = Cmd("none", "ok", << >>, << >>)
    /\ tgAlive = TRUE
    /\ scTrace = [args |-> << >>, reqs |-> << >>, maps_reads |-> 0,
                  maps_failed |-> FALSE]
    /\ lk = [pc |-> "idle", addr |-> 0, found |-> 0, shown |-> 0]
    /\ vl = [pc |-> "idle", arg |-> << >>, out |-> "none"]
    /\ cl = [pc |-> "idle", line |-> << >>, from_word |-> TRUE, cmd_line |-> << >>, handler |-> "none", value |-> [res |-> "none", kind |-> "none", val |-> 0]]
    /\ \E wrap \in BOOLEAN : rr = RemoteReadvInit(rvRemote, wrap)
    /\ os = << >>
    /\ an = [pc |-> "idle", anchors |-> << >>, scored |-> {}, k |-> 0, i |-> 0, counts |-> [b \in {0, 1} |-> 0], unique |-> 0, out |-> "none"]
    /\ ro = [kind |-> "none", args |-> << >>, status |-> "ok", sel |-> 0, out |-> << >>, decoded |-> << >>]
    /\ sb = [pc |-> "idle", matches |-> << >>, before |-> << >>, bytes |-> 1, constraints |-> << >>, chunks |-> << >>, results |-> << >>, lock |-> 0, workers |-> << >>]
    /\ prior = [a \in ScAddrs |-> 0]

\* One turn of the command loop on any typed line
ClInit ==
    /\ vl = [pc |-> "idle", arg |-> << >>, out |-> "none"]
    /\ \E l \in ClLines, fw \in BOOLEAN :
          cl = [pc |-> "idle", line |-> l, from_word |-> fw,
                cmd_line |-> << >>, handler |-> "none",
                value |-> [res |-> "none", kind |-> "none", val |-> 0]]
    /\ rr = [pc |-> "idle", wrap |-> FALSE, current_idx |-> 0, to_read |-> 0, data |-> << >>, vlen |-> << >>, failed |-> {}, calls |-> 0, starts |-> << >>, out |-> << >>]
    /\ os = << >>
    /\ an = [pc |-> "idle", anchors |-> << >>, scored |-> {}, k |-> 0, i |-> 0, counts |-> [b \in {0, 1} |-> 0], unique |-> 0, out |-> "none"]
    /\ ro = [kind |-> "none", args |-> << >>, status |-> "ok", sel |-> 0, out |-> << >>, decoded |-> << >>]
    /\ sb = [pc |-> "idle", matches |-> << >>, before |-> << >>, bytes |-> 1, constraints |-> << >>, chunks |-> << >>, results |-> << >>, lock |-> 0, workers |-> << >>]
    /\ prior = [a \in ScAddrs |-> 0]
    /\ lk = [pc |-> "idle", addr |-> 0, found |-> 0, shown |-> 0]
    /\ ckMaps = << >>
    /\ ckRange = [start |-> 0, end |-> 0]
    /\ ckRegions = << >>
    /\ ckBatches = << >>
    /\ ckNone = 0
    /\ rvRemote = << >>
    /\ rvPrefix = << >>
    /\ rv = ReadVecsInit(<< >>)
    /\ ptTokens = << >>
    /\ ptMem = << >>
    /\ ptPattern = [state |-> "unparsed", anchors |-> << >>]
    /\ ptIter = [pos |-> 0, yielded |-> << >>, status |-> "idle"]
    /\ tgMaps = << >>
    /\ tgMem = << >>
    /\ tgBad = {}
    /\ tgAlive = TRUE
    /\ results = << >>
    /\ cmd = Cmd("none", "ok", << >>, << >>)
    /\ scTrace = [args |-> << >>, reqs |-> << >>, maps_reads |-> 0,
                  maps_failed |-> FALSE]

RvSpec == RvInit /\ [][RvNext]_vars

CkSpec == CkInit /\ [][CkNext]_vars

PtSpec == PtInit /\ [][PtNext]_vars

Spec == ScInit /\ [][ScNext]_vars

DfSpec == DfInit /\ [][DfNext]_vars

CmSpec == CmInit /\ [][CmNext]_vars

LkSpec == LkInit /\ [][LkNext]_vars

VlSpec == VlInit /\ [][VlNext]_vars

DlSpec == DlInit /\ [][DlNext]_vars

SbSpec == SbInit /\ [][SbNext]_vars

RoSpec == RoInit /\ [][RoNext]_vars

AnSpec == AnInit /\ [][AnNext]_vars

DcSpec == DcInit /\ [][DcNext]_vars

OsSpec == OsInit /\ [][OsNext]_vars

RrSpec == RrInit /\ [][RrNext]_vars

ClSpec == ClInit /\ [][ClNext]_vars

====
